---------------------------- MODULE Spec2Model ----------------------------
(***************************************************************************)
(* Script-and-prosody engine of siksamitra:                                *)
(*   src/js/sanskrit_rules.js  SanskritRules, SanskritProcessor            *)
(*   src/editor-quill.js       devanagariToIAST, iastToDevanagari          *)
(*                                                                         *)
(* A text is a sequence of UTF-16 code units, each written as a short      *)
(* ASCII token.  Indices are the 0-based indices of the JavaScript source; *)
(* At(text, i) is text[i].                                                 *)
(*                                                                         *)
(* Latin (IAST) code units, Harvard-Kyoto style tokens:                    *)
(*   "a" "i" "u" "e" "o"  as written       "A" = U+0101 a-macron           *)
(*   "I" = U+012B i-macron                 "U" = U+016B u-macron           *)
(*   "R" = U+1E5B r-dot-below              "RR" = U+1E5D r-dot-macron      *)
(*   "L" = U+1E37 l-dot-below              "LL" = U+1E39 l-dot-macron      *)
(*   "G" = U+1E45 n-dot-above              "J" = U+00F1 n-tilde            *)
(*   "T" = U+1E6D t-dot-below              "D" = U+1E0D d-dot-below        *)
(*   "N" = U+1E47 n-dot-below              "z" = U+015B s-acute            *)
(*   "S" = U+1E63 s-dot-below              "H" = U+1E25 h-dot-below        *)
(*   "M" = U+1E41 m-dot-above              "M." = U+1E43 m-dot-below       *)
(*   "O" = U+014D o-macron                 "E" = U+0113 e-macron           *)
(*   "k" "g" "c" "j" "t" "d" "n" "p" "b" "m" "y" "r" "l" "v" "s" "h"       *)
(*   as written; "(" ")" "|" "'" "x" as written                            *)
(* Combining marks: "U+0331" etc., one token per code unit.                *)
(*                                                                         *)
(* Devanagari code units are written in angle brackets: "<ka>" is the      *)
(* consonant glyph U+0915, "<a>" the independent vowel U+0905, "<-A>" the  *)
(* vowel sign U+093E, "<virama>" U+094D, "<om>" U+0950, "<anusvara>"       *)
(* U+0902, "<visarga>" U+0903, "<candrabindu>" U+0901, "<avagraha>"        *)
(* U+093D, "<danda>" U+0964, "<ddanda>" U+0965, "<0>".."<9>" the digits    *)
(* U+0966..U+096F.  The letter inside follows the Latin tokens above.      *)
(***************************************************************************)
EXTENDS Integers, Sequences, FiniteSets, TLC

VARIABLES
    text,       \* the plain text handed to the engine operation
    pc,         \* which step of the exercised operation has run
    normalized, \* results of successive preProcessRawText passes
    converted,  \* results of successive script conversions
    holdings,   \* result of findAllHoldings
    pauses,     \* result of findAllPauses
    edit,       \* the edit made to the text between two locator runs
    rules,      \* the tables of the SanskritRules object the calls share
    calls       \* the calls in progress: the locals of each caller

vars ==
    <<text, pc, normalized, converted, holdings, pauses, edit, rules, calls>>

-----------------------------------------------------------------------------
(* JavaScript string primitives *)

\* text[i]: the code unit at 0-based index i, undefined outside the string
UNDEFINED == "undefined"

At(t, i) == IF i >= 0 /\ i < Len(t) THEN t[i + 1] ELSE UNDEFINED

\* text.substring(from, to) for 0 <= from <= to, clipped to the string
Substring(t, from, to) ==
    LET hi == IF to > Len(t) THEN Len(t) ELSE to
    IN  IF from >= hi THEN <<>> ELSE SubSeq(t, from + 1, hi)

SPACE == " "
TAB == "\t"
NEWLINE == "\n"
NBSP == "U+00A0"

\* the regular expression \s on one code unit
IsWhitespace(c) == c \in {SPACE, TAB, NEWLINE, NBSP}

PAUSE == "|"

-----------------------------------------------------------------------------
(* class SanskritRules *)

SKIP_CONSONANTS ==
    { <<"G">>, <<"J">>, <<"N">>, <<"n">>, <<"m">>, <<"r">>, <<"z">>, <<"S">>, <<"s">> }

TWO_CHAR_CONSONANTS ==
    { <<"k", "h">>, <<"g", "h">>, <<"c", "h">>, <<"j", "h">>, <<"T", "h">>,
      <<"D", "h">>, <<"t", "h">>, <<"d", "h">>, <<"p", "h">>, <<"b", "h">> }

ALL_CONSONANTS ==
    { <<"k">>, <<"g">>, <<"G">>, <<"c">>, <<"j">>, <<"J">>,
      <<"T">>, <<"D">>, <<"N">>, <<"t">>, <<"d">>, <<"n">>,
      <<"p">>, <<"b">>, <<"m">>, <<"y">>, <<"r">>, <<"l">>, <<"v">>,
      <<"z">>, <<"S">>, <<"s">>, <<"h">>, <<"H">>, <<"M">>, <<"M.">> }
    \cup TWO_CHAR_CONSONANTS

SHORT_VOWELS == { <<"a">>, <<"i">>, <<"u">>, <<"R">>, <<"L">> }

LONG_VOWELS ==
    { <<"A">>, <<"I">>, <<"U">>, <<"RR">>, <<"LL">>, <<"e">>, <<"a", "i">>,
      <<"o">>, <<"a", "u">> }

VOWELS == SHORT_VOWELS \cup LONG_VOWELS

SVARA_MARKS == {"U+0331", "U+030D", "U+030E", "U+02CE"}

\* the values null and false that isConsonant/isVowel return for "no unit"
NoUnit == <<>>

\* isConsonant(text, pos): the consonant unit at pos, two code units first
isConsonant(t, pos) ==
    IF pos >= Len(t) THEN NoUnit
    ELSE IF pos + 1 < Len(t) /\ Substring(t, pos, pos + 2) \in TWO_CHAR_CONSONANTS
         THEN Substring(t, pos, pos + 2)
    ELSE IF <<At(t, pos)>> \in ALL_CONSONANTS THEN <<At(t, pos)>>
    ELSE NoUnit

\* isVowel(text, pos): the vowel unit at pos, two code units first
isVowel(t, pos) ==
    IF pos >= Len(t) THEN NoUnit
    ELSE IF pos + 1 < Len(t) /\ Substring(t, pos, pos + 2) \in VOWELS
         THEN Substring(t, pos, pos + 2)
    ELSE IF <<At(t, pos)>> \in VOWELS THEN <<At(t, pos)>>
    ELSE NoUnit

isSvaraMark(c) == c \in SVARA_MARKS

-----------------------------------------------------------------------------
(* class SanskritProcessor: preProcessRawText *)

\* String.prototype.replace with a global literal pattern: every
\* non-overlapping match, scanning left to right, is replaced
RECURSIVE ReplaceAll(_, _, _)
ReplaceAll(t, pat, rep) ==
    IF Len(t) < Len(pat) THEN t
    ELSE IF SubSeq(t, 1, Len(pat)) = pat
         THEN rep \o ReplaceAll(SubSeq(t, Len(pat) + 1, Len(t)), pat, rep)
    ELSE <<Head(t)>> \o ReplaceAll(Tail(t), pat, rep)

\* the replacements of preProcessRawText, in the order the code applies them
Replacements ==
    << [pat |-> <<"U+0951">>, rep |-> <<"U+030D">>],
       [pat |-> <<"U+0952">>, rep |-> <<"U+0331">>],
       [pat |-> <<"U+0332">>, rep |-> <<"U+0331">>],
       [pat |-> <<"U+0320">>, rep |-> <<"U+0331">>],
       [pat |-> <<"U+0321">>, rep |-> <<"U+0331">>],
       [pat |-> <<"U+1CDA">>, rep |-> <<"U+030E">>],
       [pat |-> <<"U+0341">>, rep |-> <<"U+030E">>],
       [pat |-> <<"M.">>, rep |-> <<"M">>],
       [pat |-> <<"O">>, rep |-> <<"o">>],
       [pat |-> <<"E">>, rep |-> <<"e">>],
       [pat |-> <<"(", "g", ")", "m">>, rep |-> <<"M">>],
       [pat |-> <<"(", "g", ")", "M">>, rep |-> <<"M">>],
       [pat |-> <<"(", "g", "U+0331", ")", "M">>, rep |-> <<"M">>],
       [pat |-> <<"(", "g", "U+0331", ")", "m">>, rep |-> <<"M">>] >>

\* the text after the first n replacements
RECURSIVE ApplyReplacements(_, _)
ApplyReplacements(t, n) ==
    IF n = 0 THEN t
    ELSE ReplaceAll(ApplyReplacements(t, n - 1),
                    Replacements[n].pat, Replacements[n].rep)

preProcessRawText(t) == ApplyReplacements(t, Len(Replacements))

-----------------------------------------------------------------------------
(* class SanskritProcessor: the holding locator *)

\* findPreviousVowel(text, pos, blockAtSpace), the loop from index i down
RECURSIVE findPreviousVowelFrom(_, _, _)
findPreviousVowelFrom(t, i, blockAtSpace) ==
    IF i < 0 THEN [vowel |-> NoUnit, blocked |-> FALSE, position |-> -1]
    ELSE IF At(t, i) = PAUSE THEN findPreviousVowelFrom(t, i - 1, blockAtSpace)
    ELSE IF isSvaraMark(At(t, i)) THEN findPreviousVowelFrom(t, i - 1, blockAtSpace)
    ELSE IF IsWhitespace(At(t, i)) /\ blockAtSpace
         THEN [vowel |-> NoUnit, blocked |-> TRUE, position |-> -1]
    ELSE IF At(t, i) \in {"M", "M.", "H"}
         THEN [vowel |-> <<At(t, i)>>, blocked |-> FALSE, position |-> i]
    ELSE IF isVowel(t, i) # NoUnit
         THEN [vowel |-> isVowel(t, i), blocked |-> FALSE, position |-> i]
    ELSE findPreviousVowelFrom(t, i - 1, blockAtSpace)

findPreviousVowel(t, pos, blockAtSpace) ==
    findPreviousVowelFrom(t, pos - 1, blockAtSpace)

\* findSamyuktaLength(text, pos, countMarks), the loop from index i on
RECURSIVE findSamyuktaLengthFrom(_, _, _)
findSamyuktaLengthFrom(t, i, countMarks) ==
    IF i >= Len(t) THEN 0
    ELSE IF IsWhitespace(At(t, i)) \/ At(t, i) = NEWLINE
         THEN findSamyuktaLengthFrom(t, i + 1, countMarks)
    ELSE IF At(t, i) = PAUSE THEN findSamyuktaLengthFrom(t, i + 1, countMarks)
    ELSE IF countMarks /\ isSvaraMark(At(t, i))
         THEN findSamyuktaLengthFrom(t, i + 1, countMarks)
    ELSE IF isConsonant(t, i) # NoUnit
         THEN 1 + findSamyuktaLengthFrom(t, i + Len(isConsonant(t, i)), countMarks)
    ELSE 0

findSamyuktaLength(t, pos, countMarks) == findSamyuktaLengthFrom(t, pos, countMarks)

\* the value { position: 0, length: 0, type: '' } returned for "no holding"
NoHolding == [position |-> 0, length |-> 0, type |-> ""]

\* the two inner loops of findHoldingPosition that run to the end of the
\* samyukta after the first consonant of the next word
RECURSIVE scanToSamyuktaEnd(_, _)
scanToSamyuktaEnd(t, i) ==
    IF i >= Len(t) THEN i
    ELSE IF isSvaraMark(At(t, i)) THEN scanToSamyuktaEnd(t, i + 1)
    ELSE IF isConsonant(t, i) = NoUnit THEN i
    ELSE scanToSamyuktaEnd(t, i + Len(isConsonant(t, i)))

\* the traversal loop of findHoldingPosition from index i on; holdingPosition
\* is still pos, the first consonant of the samyukta.  The result is the
\* holding the loop returns, or NoUnit when the loop ends without returning.
RECURSIVE traverseSamyukta(_, _, _, _, _, _, _)
traverseSamyukta(t, pos, i, passedOverSpace, lastConsonantBeforeSpace, lastConsonantBeforeSpacePos, holdingType) ==
    IF i >= Len(t) THEN NoUnit
    ELSE IF IsWhitespace(At(t, i)) \/ At(t, i) = NEWLINE
         THEN IF ~passedOverSpace /\ isConsonant(t, pos) # NoUnit
              THEN traverseSamyukta(t, pos, i + 1, TRUE, isConsonant(t, pos), pos,
                                    holdingType)
              ELSE traverseSamyukta(t, pos, i + 1, TRUE, lastConsonantBeforeSpace,
                                    lastConsonantBeforeSpacePos, holdingType)
    ELSE IF At(t, i) = PAUSE
         THEN traverseSamyukta(t, pos, i + 1, passedOverSpace,
                               lastConsonantBeforeSpace,
                               lastConsonantBeforeSpacePos, holdingType)
    ELSE IF isSvaraMark(At(t, i))
         THEN traverseSamyukta(t, pos, i + 1, passedOverSpace,
                               lastConsonantBeforeSpace,
                               lastConsonantBeforeSpacePos, holdingType)
    ELSE LET cons == isConsonant(t, i)
         IN  IF cons = NoUnit THEN NoUnit
             ELSE IF passedOverSpace
                  THEN IF cons = lastConsonantBeforeSpace
                       THEN [position |-> lastConsonantBeforeSpacePos,
                             length |-> Len(lastConsonantBeforeSpace),
                             type |-> holdingType,
                             endPos |-> scanToSamyuktaEnd(t, i + Len(cons))]
                       ELSE [position |-> i,
                             length |-> Len(cons),
                             type |-> holdingType,
                             endPos |-> scanToSamyuktaEnd(t, i + Len(cons))]
             ELSE traverseSamyukta(t, pos, i + Len(cons), passedOverSpace,
                                   lastConsonantBeforeSpace,
                                   lastConsonantBeforeSpacePos, holdingType)

\* the loop of findHoldingPosition that skips over SKIP_CONSONANTS
RECURSIVE skipSkipConsonants(_, _)
skipSkipConsonants(t, holdingPosition) ==
    LET currentCons == isConsonant(t, holdingPosition)
    IN  IF currentCons # NoUnit /\ currentCons \in SKIP_CONSONANTS
        THEN IF holdingPosition + Len(currentCons) >= Len(t)
             THEN holdingPosition + Len(currentCons)
             ELSE skipSkipConsonants(t, holdingPosition + Len(currentCons))
        ELSE holdingPosition

\* mutant: the holding is one code unit long whatever the consonant
placeInWord_oneCodeUnit(t, pos, holdingType) ==
    LET holdingPosition == skipSkipConsonants(t, pos)
        currentCons == isConsonant(t, holdingPosition)
    IN  IF currentCons # NoUnit
        THEN [position |-> holdingPosition, length |-> 1, type |-> holdingType]
        ELSE NoHolding

\* the placement inside one word: the first consonant that is not skipped
placeInWord(t, pos, holdingType) ==
    LET holdingPosition == skipSkipConsonants(t, pos)
        currentCons == isConsonant(t, holdingPosition)
    IN  IF currentCons # NoUnit
        THEN [position |-> holdingPosition, length |-> Len(currentCons),
              type |-> holdingType]
        ELSE NoHolding

\* mutant: the threshold off by one, a single consonant counts as a cluster
belowThreshold_offByOne(samyuktaLength) == samyuktaLength < 1

\* the cluster threshold of findHoldingPosition
belowThreshold(samyuktaLength) == samyuktaLength <= 1

\* mutant: the start of the text counts as a word boundary
findHoldingPosition_startIsBoundary(t, pos) ==
    LET consonant == isConsonant(t, pos)
        found == findPreviousVowel(t, pos, TRUE)
        holdingType == IF found.vowel \in LONG_VOWELS THEN "long" ELSE "short"
        crossed == traverseSamyukta(t, pos, pos, FALSE, NoUnit, -1, holdingType)
    IN  IF consonant = NoUnit THEN NoHolding
        ELSE IF belowThreshold(findSamyuktaLength(t, pos, FALSE)) THEN NoHolding
        ELSE IF found.vowel = NoUnit
             THEN [position |-> pos, length |-> Len(consonant), type |-> "short"]
        ELSE IF crossed # NoUnit THEN crossed
        ELSE placeInWord(t, pos, holdingType)

findHoldingPosition(t, pos) ==
    LET consonant == isConsonant(t, pos)
        found == findPreviousVowel(t, pos, TRUE)
        holdingType == IF found.vowel \in LONG_VOWELS THEN "long" ELSE "short"
        crossed == traverseSamyukta(t, pos, pos, FALSE, NoUnit, -1, holdingType)
    IN  IF consonant = NoUnit THEN NoHolding
        ELSE IF belowThreshold(findSamyuktaLength(t, pos, FALSE)) THEN NoHolding
        ELSE IF found.vowel = NoUnit
             THEN IF found.blocked
                  THEN [position |-> pos, length |-> Len(consonant), type |-> "short"]
                  ELSE NoHolding
        ELSE IF crossed # NoUnit THEN crossed
        ELSE placeInWord(t, pos, holdingType)

\* where the scan of findAllHoldings continues after a pushed holding
nextScanIndex(holding) ==
    IF "endPos" \in DOMAIN holding THEN holding.endPos
    ELSE holding.position + holding.length

\* mutant: after a pushed holding the scan moves on by the consonant it
\* stands on, not past the holding
findAllHoldingsStep_noSkip(t, s) ==
    IF At(t, s.i) = PAUSE THEN [s EXCEPT !.i = s.i + 1]
    ELSE LET consonant == isConsonant(t, s.i)
             holding == findHoldingPosition(t, s.i)
         IN  IF consonant # NoUnit
             THEN IF holding.position > 0 /\ holding.length > 0
                  THEN [i |-> s.i + Len(consonant),
                        holdings |-> Append(s.holdings, holding)]
                  ELSE [s EXCEPT !.i = s.i + Len(consonant)]
             ELSE [s EXCEPT !.i = s.i + 1]

\* one iteration of the loop of findAllHoldings; s = [i, holdings]
findAllHoldingsStep(t, s) ==
    IF At(t, s.i) = PAUSE THEN [s EXCEPT !.i = s.i + 1]
    ELSE LET consonant == isConsonant(t, s.i)
             holding == findHoldingPosition(t, s.i)
         IN  IF consonant # NoUnit
             THEN IF holding.position > 0 /\ holding.length > 0
                  THEN [i |-> nextScanIndex(holding),
                        holdings |-> Append(s.holdings, holding)]
                  ELSE [s EXCEPT !.i = s.i + Len(consonant)]
             ELSE [s EXCEPT !.i = s.i + 1]

RECURSIVE findAllHoldingsLoop(_, _)
findAllHoldingsLoop(t, s) ==
    IF s.i < Len(t) THEN findAllHoldingsLoop(t, findAllHoldingsStep(t, s))
    ELSE s.holdings

findAllHoldings(t) == findAllHoldingsLoop(t, [i |-> 0, holdings |-> <<>>])

\* the states [i, holdings] at which the loop of findAllHoldings enters its
\* body, from state s on
RECURSIVE findAllHoldingsStates(_, _)
findAllHoldingsStates(t, s) ==
    IF s.i < Len(t)
    THEN {s} \cup findAllHoldingsStates(t, findAllHoldingsStep(t, s))
    ELSE {}

-----------------------------------------------------------------------------
(* The indices i of the expressions text[i] each function evaluates.
   text.substring is not among them: it clips its range to the string. *)

\* isConsonant: text[pos], after the test on pos and the two-character test
isConsonantReads(t, pos) ==
    IF pos >= Len(t) THEN {}
    ELSE IF pos + 1 < Len(t) /\ Substring(t, pos, pos + 2) \in TWO_CHAR_CONSONANTS
         THEN {}
    ELSE {pos}

\* isVowel: text[pos], after the test on pos and the two-character test
isVowelReads(t, pos) ==
    IF pos >= Len(t) THEN {}
    ELSE IF pos + 1 < Len(t) /\ Substring(t, pos, pos + 2) \in VOWELS THEN {}
    ELSE {pos}

\* findPreviousVowel, the loop from index i down
RECURSIVE findPreviousVowelReads(_, _, _)
findPreviousVowelReads(t, i, blockAtSpace) ==
    IF i < 0 THEN {}
    ELSE {i} \cup
         IF At(t, i) = PAUSE \/ isSvaraMark(At(t, i))
         THEN findPreviousVowelReads(t, i - 1, blockAtSpace)
         ELSE IF IsWhitespace(At(t, i)) /\ blockAtSpace THEN {}
         ELSE IF At(t, i) \in {"M", "M.", "H"} THEN {}
         ELSE isVowelReads(t, i) \cup
              IF isVowel(t, i) # NoUnit THEN {}
              ELSE findPreviousVowelReads(t, i - 1, blockAtSpace)

\* findSamyuktaLength, the loop from index i on
RECURSIVE findSamyuktaLengthReads(_, _, _)
findSamyuktaLengthReads(t, i, countMarks) ==
    IF i >= Len(t) THEN {}
    ELSE {i} \cup
         IF \/ IsWhitespace(At(t, i)) \/ At(t, i) = NEWLINE \/ At(t, i) = PAUSE
            \/ (countMarks /\ isSvaraMark(At(t, i)))
         THEN findSamyuktaLengthReads(t, i + 1, countMarks)
         ELSE isConsonantReads(t, i) \cup
              IF isConsonant(t, i) # NoUnit
              THEN findSamyuktaLengthReads(t, i + Len(isConsonant(t, i)), countMarks)
              ELSE {}

\* the inner loops of findHoldingPosition that run to the end of the samyukta
RECURSIVE scanToSamyuktaEndReads(_, _)
scanToSamyuktaEndReads(t, i) ==
    IF i >= Len(t) THEN {}
    ELSE {i} \cup
         IF isSvaraMark(At(t, i)) THEN scanToSamyuktaEndReads(t, i + 1)
         ELSE isConsonantReads(t, i) \cup
              IF isConsonant(t, i) # NoUnit
              THEN scanToSamyuktaEndReads(t, i + Len(isConsonant(t, i)))
              ELSE {}

\* the traversal loop of findHoldingPosition from index i on
RECURSIVE traverseSamyuktaReads(_, _, _, _)
traverseSamyuktaReads(t, pos, i, passedOverSpace) ==
    IF i >= Len(t) THEN {}
    ELSE {i} \cup
         IF IsWhitespace(At(t, i)) \/ At(t, i) = NEWLINE
         THEN (IF passedOverSpace THEN {} ELSE isConsonantReads(t, pos))
              \cup traverseSamyuktaReads(t, pos, i + 1, TRUE)
         ELSE IF At(t, i) = PAUSE \/ isSvaraMark(At(t, i))
         THEN traverseSamyuktaReads(t, pos, i + 1, passedOverSpace)
         ELSE isConsonantReads(t, i) \cup
              IF isConsonant(t, i) = NoUnit THEN {}
              ELSE IF passedOverSpace
              THEN scanToSamyuktaEndReads(t, i + Len(isConsonant(t, i)))
              ELSE traverseSamyuktaReads(t, pos, i + Len(isConsonant(t, i)),
                                         passedOverSpace)

\* the loop of findHoldingPosition over SKIP_CONSONANTS and the last call of
\* isConsonant after it
RECURSIVE skipSkipConsonantsReads(_, _)
skipSkipConsonantsReads(t, holdingPosition) ==
    LET currentCons == isConsonant(t, holdingPosition)
    IN  isConsonantReads(t, holdingPosition) \cup
        IF currentCons # NoUnit /\ currentCons \in SKIP_CONSONANTS
        THEN IF holdingPosition + Len(currentCons) >= Len(t)
             THEN isConsonantReads(t, holdingPosition + Len(currentCons))
             ELSE skipSkipConsonantsReads(t, holdingPosition + Len(currentCons))
        ELSE {}

findHoldingPositionReads(t, pos) ==
    LET found == findPreviousVowel(t, pos, TRUE)
    IN  isConsonantReads(t, pos) \cup
        IF isConsonant(t, pos) = NoUnit THEN {}
        ELSE findSamyuktaLengthReads(t, pos, FALSE) \cup
             IF belowThreshold(findSamyuktaLength(t, pos, FALSE)) THEN {}
             ELSE findPreviousVowelReads(t, pos - 1, TRUE) \cup
                  IF found.vowel = NoUnit THEN {}
                  ELSE traverseSamyuktaReads(t, pos, pos, FALSE) \cup
                       IF traverseSamyukta(t, pos, pos, FALSE, NoUnit, -1, "short")
                              # NoUnit
                       THEN {}
                       ELSE skipSkipConsonantsReads(t, pos)

\* one iteration of the loop of findAllHoldings in state s
findAllHoldingsStepReads(t, s) ==
    {s.i} \cup
    IF At(t, s.i) = PAUSE THEN {}
    ELSE isConsonantReads(t, s.i) \cup
         IF isConsonant(t, s.i) # NoUnit THEN findHoldingPositionReads(t, s.i)
         ELSE {}

findAllHoldingsReads(t) ==
    UNION {findAllHoldingsStepReads(t, s) :
               s \in findAllHoldingsStates(t, [i |-> 0, holdings |-> <<>>])}

-----------------------------------------------------------------------------
(* class SanskritProcessor: the pause locator *)

\* the loops of findAllPauses that move nextPos past svara marks
RECURSIVE skipSvaraMarks(_, _)
skipSvaraMarks(t, nextPos) ==
    IF nextPos < Len(t) /\ isSvaraMark(At(t, nextPos))
    THEN skipSvaraMarks(t, nextPos + 1)
    ELSE nextPos

\* the test for the "om" pattern followed by a space at index i
omFollowedBySpace(t, i) ==
    i + 2 < Len(t) /\ At(t, i) = "o" /\ At(t, i + 1) = "M" /\ At(t, i + 2) = SPACE

\* mutant: the length of the word-final vowel is not looked at
pauseType_nextOnly(vowel, nextVowel) ==
    IF nextVowel \in SHORT_VOWELS THEN "long" ELSE "short"

\* mutant: the length of the word-initial vowel is not looked at
pauseType_currentOnly(vowel, nextVowel) ==
    IF vowel \in LONG_VOWELS THEN "long" ELSE "short"

\* the type of the pause between a word-final and a word-initial vowel
pauseType(vowel, nextVowel) ==
    IF vowel \in LONG_VOWELS /\ nextVowel \in SHORT_VOWELS THEN "long" ELSE "short"

\* the pause of the vowel unit at index i, if any: NoUnit or <<pause>>
sandhiPause(t, i, vowel) ==
    LET afterVowel == skipSvaraMarks(t, i + Len(vowel))
        nextPos == skipSvaraMarks(t, afterVowel + 1)
        nextVowel == isVowel(t, nextPos)
    IN  IF afterVowel < Len(t) /\ At(t, afterVowel) = SPACE /\ nextVowel # NoUnit
        THEN <<[position |-> nextPos, type |-> pauseType(vowel, nextVowel)]>>
        ELSE NoUnit

\* one iteration of the loop of findAllPauses; s = [i, pauses]
findAllPausesStep(t, s) ==
    IF isSvaraMark(At(t, s.i)) THEN [s EXCEPT !.i = s.i + 1]
    ELSE IF omFollowedBySpace(t, s.i)
         THEN [i |-> s.i + 3,
               pauses |-> Append(s.pauses, [position |-> s.i + 3, type |-> "short"])]
    ELSE LET vowel == isVowel(t, s.i)
         IN  IF vowel # NoUnit
             THEN [i |-> s.i + Len(vowel),
                   pauses |-> s.pauses \o sandhiPause(t, s.i, vowel)]
             ELSE [s EXCEPT !.i = s.i + 1]

RECURSIVE findAllPausesLoop(_, _)
findAllPausesLoop(t, s) ==
    IF s.i < Len(t) THEN findAllPausesLoop(t, findAllPausesStep(t, s))
    ELSE s.pauses

findAllPauses(t) == findAllPausesLoop(t, [i |-> 0, pauses |-> <<>>])

\* the states [i, pauses] at which the loop of findAllPauses enters its body
RECURSIVE findAllPausesStates(_, _)
findAllPausesStates(t, s) ==
    IF s.i < Len(t)
    THEN {s} \cup findAllPausesStates(t, findAllPausesStep(t, s))
    ELSE {}

\* the indices read by the "om" test: each conjunct is evaluated only when
\* the ones before it hold
omFollowedBySpaceReads(t, i) ==
    IF i + 2 < Len(t)
    THEN {i} \cup (IF At(t, i) = "o"
                   THEN {i + 1} \cup (IF At(t, i + 1) = "M" THEN {i + 2} ELSE {})
                   ELSE {})
    ELSE {}

\* mutant: the loop over svara marks tests the mark before the bound
skipSvaraMarksReads_unguarded(t, nextPos) ==
    {q \in nextPos..skipSvaraMarks(t, nextPos) : TRUE}

\* the indices read by a loop of findAllPauses over svara marks: those it
\* steps over and the one it stops at, if that is inside the text
skipSvaraMarksReads(t, nextPos) ==
    {q \in nextPos..skipSvaraMarks(t, nextPos) : q < Len(t)}

\* one iteration of the loop of findAllPauses in state s
findAllPausesStepReads(t, s) ==
    LET vowel == isVowel(t, s.i)
        afterVowel == skipSvaraMarks(t, s.i + Len(vowel))
    IN  {s.i} \cup
        IF isSvaraMark(At(t, s.i)) THEN {}
        ELSE omFollowedBySpaceReads(t, s.i) \cup
             IF omFollowedBySpace(t, s.i) THEN {}
             ELSE isVowelReads(t, s.i) \cup
                  IF vowel = NoUnit THEN {}
                  ELSE skipSvaraMarksReads(t, s.i + Len(vowel)) \cup
                       IF afterVowel < Len(t) /\ At(t, afterVowel) = SPACE
                       THEN skipSvaraMarksReads(t, afterVowel + 1)
                            \cup isVowelReads(t, skipSvaraMarks(t, afterVowel + 1))
                       ELSE {}

findAllPausesReads(t) ==
    UNION {findAllPausesStepReads(t, s) :
               s \in findAllPausesStates(t, [i |-> 0, pauses |-> <<>>])}

-----------------------------------------------------------------------------
(* SiksamitraEditor.devanagariToIAST *)

VIRAMA == "<virama>"

D2I_vowels ==
    [c \in {"<a>", "<A>", "<i>", "<I>", "<u>", "<U>", "<R>", "<RR>", "<L>",
            "<LL>", "<e>", "<ai>", "<o>", "<au>", "<om>"} |->
        CASE c = "<a>" -> <<"a">>   [] c = "<A>" -> <<"A">>
          [] c = "<i>" -> <<"i">>   [] c = "<I>" -> <<"I">>
          [] c = "<u>" -> <<"u">>   [] c = "<U>" -> <<"U">>
          [] c = "<R>" -> <<"R">>   [] c = "<RR>" -> <<"RR">>
          [] c = "<L>" -> <<"L">>   [] c = "<LL>" -> <<"LL">>
          [] c = "<e>" -> <<"e">>   [] c = "<ai>" -> <<"a", "i">>
          [] c = "<o>" -> <<"o">>   [] c = "<au>" -> <<"a", "u">>
          [] c = "<om>" -> <<"o", "M">>]

D2I_vowelSigns ==
    [c \in {"<-A>", "<-i>", "<-I>", "<-u>", "<-U>", "<-R>", "<-RR>", "<-L>",
            "<-LL>", "<-e>", "<-ai>", "<-o>", "<-au>"} |->
        CASE c = "<-A>" -> <<"A">>   [] c = "<-i>" -> <<"i">>
          [] c = "<-I>" -> <<"I">>   [] c = "<-u>" -> <<"u">>
          [] c = "<-U>" -> <<"U">>   [] c = "<-R>" -> <<"R">>
          [] c = "<-RR>" -> <<"RR">> [] c = "<-L>" -> <<"L">>
          [] c = "<-LL>" -> <<"LL">> [] c = "<-e>" -> <<"e">>
          [] c = "<-ai>" -> <<"a", "i">> [] c = "<-o>" -> <<"o">>
          [] c = "<-au>" -> <<"a", "u">>]

\* the keys are the strings of the source: one code unit each, except the
\* two ligatures, which are three code units long
D2I_consonants ==
    (<<"<ka>">> :> <<"k">>) @@ (<<"<kha>">> :> <<"k", "h">>) @@
    (<<"<ga>">> :> <<"g">>) @@ (<<"<gha>">> :> <<"g", "h">>) @@
    (<<"<Ga>">> :> <<"G">>) @@
    (<<"<ca>">> :> <<"c">>) @@ (<<"<cha>">> :> <<"c", "h">>) @@
    (<<"<ja>">> :> <<"j">>) @@ (<<"<jha>">> :> <<"j", "h">>) @@
    (<<"<Ja>">> :> <<"J">>) @@
    (<<"<Ta>">> :> <<"T">>) @@ (<<"<Tha>">> :> <<"T", "h">>) @@
    (<<"<Da>">> :> <<"D">>) @@ (<<"<Dha>">> :> <<"D", "h">>) @@
    (<<"<Na>">> :> <<"N">>) @@
    (<<"<ta>">> :> <<"t">>) @@ (<<"<tha>">> :> <<"t", "h">>) @@
    (<<"<da>">> :> <<"d">>) @@ (<<"<dha>">> :> <<"d", "h">>) @@
    (<<"<na>">> :> <<"n">>) @@
    (<<"<pa>">> :> <<"p">>) @@ (<<"<pha>">> :> <<"p", "h">>) @@
    (<<"<ba>">> :> <<"b">>) @@ (<<"<bha>">> :> <<"b", "h">>) @@
    (<<"<ma>">> :> <<"m">>) @@
    (<<"<ya>">> :> <<"y">>) @@ (<<"<ra>">> :> <<"r">>) @@
    (<<"<la>">> :> <<"l">>) @@ (<<"<va>">> :> <<"v">>) @@
    (<<"<za>">> :> <<"z">>) @@ (<<"<Sa>">> :> <<"S">>) @@
    (<<"<sa>">> :> <<"s">>) @@ (<<"<ha>">> :> <<"h">>) @@
    (<<"<La>">> :> <<"L">>) @@
    (<<"<ka>", "<virama>", "<Sa>">> :> <<"k", "S">>) @@
    (<<"<ja>", "<virama>", "<Ja>">> :> <<"j", "J">>)

D2I_special ==
    ("<anusvara>" :> <<"M">>) @@ ("<visarga>" :> <<"H">>) @@
    ("<candrabindu>" :> <<"m", "U+0310">>) @@ ("<avagraha>" :> <<"'">>) @@
    ("<danda>" :> <<"|">>) @@ ("<ddanda>" :> <<"|", "|">>)

\* mutant: a consonant at the end of the text gets the inherent vowel too
D2I_afterConsonant_finalA(t, next) ==
    IF next < Len(t)
    THEN IF At(t, next) \in DOMAIN D2I_vowelSigns
         THEN [out |-> D2I_vowelSigns[At(t, next)], i |-> next]
         ELSE IF At(t, next) = VIRAMA
              THEN [out |-> <<>>, i |-> next]
              ELSE [out |-> <<"a">>, i |-> next - 1]
    ELSE [out |-> <<"a">>, i |-> next - 1]

\* what devanagariToIAST emits after a consonant whose next character is
\* text[next]: [out, i] with i the index of the last character consumed
D2I_afterConsonant(t, next) ==
    IF next < Len(t)
    THEN IF At(t, next) \in DOMAIN D2I_vowelSigns
         THEN [out |-> D2I_vowelSigns[At(t, next)], i |-> next]
         ELSE IF At(t, next) = VIRAMA
              THEN [out |-> <<>>, i |-> next]
              ELSE [out |-> <<"a">>, i |-> next - 1]
    ELSE [out |-> <<>>, i |-> next - 1]

\* the branch for a two-character key of the consonant table
D2I_afterTwoCharConsonant(t, i) ==
    IF i < Len(t)
    THEN IF At(t, i) \in DOMAIN D2I_vowelSigns
         THEN [out |-> D2I_vowelSigns[At(t, i)], i |-> i + 1]
         ELSE IF At(t, i) # VIRAMA
              THEN [out |-> <<"a">>, i |-> i]
              ELSE [out |-> <<>>, i |-> i]
    ELSE [out |-> <<"a">>, i |-> i]

\* mutant: a character of no table is dropped, not copied
devanagariToIASTStep_dropsUnknown(t, s) ==
    LET char == At(t, s.i)
        twoChar == <<char, At(t, s.i + 1)>>
    IN  IF char = "<om>"
        THEN [i |-> s.i + 1, result |-> s.result \o <<"o", "M">>]
        ELSE IF s.i < Len(t) - 1 /\ twoChar \in DOMAIN D2I_consonants
        THEN LET after == D2I_afterTwoCharConsonant(t, s.i + 2)
             IN  [i |-> after.i,
                  result |-> s.result \o D2I_consonants[twoChar] \o after.out]
        ELSE IF char \in DOMAIN D2I_vowels
        THEN [i |-> s.i + 1, result |-> s.result \o D2I_vowels[char]]
        ELSE IF <<char>> \in DOMAIN D2I_consonants
        THEN LET after == D2I_afterConsonant(t, s.i + 1)
             IN  [i |-> after.i + 1,
                  result |-> s.result \o D2I_consonants[<<char>>] \o after.out]
        ELSE IF char \in DOMAIN D2I_vowelSigns
        THEN [i |-> s.i + 1, result |-> s.result \o D2I_vowelSigns[char]]
        ELSE IF char # VIRAMA /\ char \in DOMAIN D2I_special
        THEN [i |-> s.i + 1, result |-> s.result \o D2I_special[char]]
        ELSE IF char = VIRAMA
        THEN [i |-> s.i + 1, result |-> s.result]
        ELSE [i |-> s.i + 1, result |-> s.result]

\* mutant: a virama that follows no consonant is copied like a character
\* of no table
devanagariToIASTStep_keepsVirama(t, s) ==
    LET char == At(t, s.i)
        twoChar == <<char, At(t, s.i + 1)>>
    IN  IF char = "<om>"
        THEN [i |-> s.i + 1, result |-> s.result \o <<"o", "M">>]
        ELSE IF s.i < Len(t) - 1 /\ twoChar \in DOMAIN D2I_consonants
        THEN LET after == D2I_afterTwoCharConsonant(t, s.i + 2)
             IN  [i |-> after.i,
                  result |-> s.result \o D2I_consonants[twoChar] \o after.out]
        ELSE IF char \in DOMAIN D2I_vowels
        THEN [i |-> s.i + 1, result |-> s.result \o D2I_vowels[char]]
        ELSE IF <<char>> \in DOMAIN D2I_consonants
        THEN LET after == D2I_afterConsonant(t, s.i + 1)
             IN  [i |-> after.i + 1,
                  result |-> s.result \o D2I_consonants[<<char>>] \o after.out]
        ELSE IF char \in DOMAIN D2I_vowelSigns
        THEN [i |-> s.i + 1, result |-> s.result \o D2I_vowelSigns[char]]
        ELSE IF char # VIRAMA /\ char \in DOMAIN D2I_special
        THEN [i |-> s.i + 1, result |-> s.result \o D2I_special[char]]
        ELSE [i |-> s.i + 1, result |-> s.result \o <<char>>]

\* one iteration of the loop of devanagariToIAST; s = [i, result]
devanagariToIASTStep(t, s) ==
    LET char == At(t, s.i)
        twoChar == <<char, At(t, s.i + 1)>>
    IN  IF char = "<om>"
        THEN [i |-> s.i + 1, result |-> s.result \o <<"o", "M">>]
        ELSE IF s.i < Len(t) - 1 /\ twoChar \in DOMAIN D2I_consonants
        THEN LET after == D2I_afterTwoCharConsonant(t, s.i + 2)
             IN  [i |-> after.i,
                  result |-> s.result \o D2I_consonants[twoChar] \o after.out]
        ELSE IF char \in DOMAIN D2I_vowels
        THEN [i |-> s.i + 1, result |-> s.result \o D2I_vowels[char]]
        ELSE IF <<char>> \in DOMAIN D2I_consonants
        THEN LET after == D2I_afterConsonant(t, s.i + 1)
             IN  [i |-> after.i + 1,
                  result |-> s.result \o D2I_consonants[<<char>>] \o after.out]
        ELSE IF char \in DOMAIN D2I_vowelSigns
        THEN [i |-> s.i + 1, result |-> s.result \o D2I_vowelSigns[char]]
        ELSE IF char # VIRAMA /\ char \in DOMAIN D2I_special
        THEN [i |-> s.i + 1, result |-> s.result \o D2I_special[char]]
        ELSE IF char = VIRAMA
        THEN [i |-> s.i + 1, result |-> s.result]
        ELSE [i |-> s.i + 1, result |-> s.result \o <<char>>]

RECURSIVE devanagariToIASTLoop(_, _)
devanagariToIASTLoop(t, s) ==
    IF s.i < Len(t) THEN devanagariToIASTLoop(t, devanagariToIASTStep(t, s))
    ELSE s.result

devanagariToIAST(t) == devanagariToIASTLoop(t, [i |-> 0, result |-> <<>>])

\* the states [i, result] at which the loop of devanagariToIAST tests its
\* condition and enters its body, from state s on
RECURSIVE devanagariToIASTStates(_, _)
devanagariToIASTStates(t, s) ==
    IF s.i < Len(t)
    THEN {s} \cup devanagariToIASTStates(t, devanagariToIASTStep(t, s))
    ELSE {}

\* the indices read by one iteration of the loop of devanagariToIAST
devanagariToIASTStepReads(t, s) ==
    LET i == s.i
        char == At(t, i)
    IN  {i} \cup
        IF char = "<om>" THEN {}
        ELSE (IF i < Len(t) - 1 THEN {i + 1} ELSE {}) \cup
             IF i < Len(t) - 1 /\ <<char, At(t, i + 1)>> \in DOMAIN D2I_consonants
             THEN (IF i + 2 < Len(t) THEN {i + 2} ELSE {})
             ELSE IF char \notin DOMAIN D2I_vowels /\ <<char>> \in DOMAIN D2I_consonants
             THEN IF i + 1 < Len(t)
                  THEN {i + 1} \cup
                       IF At(t, i + 1) \notin DOMAIN D2I_vowelSigns
                          /\ At(t, i + 1) = VIRAMA /\ i + 2 < Len(t)
                       THEN {i + 2}
                       ELSE {}
                  ELSE {}
             ELSE {}

devanagariToIASTReads(t) ==
    UNION {devanagariToIASTStepReads(t, s) :
               s \in devanagariToIASTStates(t, [i |-> 0, result |-> <<>>])}

-----------------------------------------------------------------------------
(* SiksamitraEditor.iastToDevanagari *)

I2D_vowels ==
    (<<"a">> :> "<a>") @@ (<<"A">> :> "<A>") @@ (<<"i">> :> "<i>") @@
    (<<"I">> :> "<I>") @@ (<<"u">> :> "<u>") @@ (<<"U">> :> "<U>") @@
    (<<"R">> :> "<R>") @@ (<<"RR">> :> "<RR>") @@ (<<"L">> :> "<L>") @@
    (<<"LL">> :> "<LL>") @@ (<<"e">> :> "<e>") @@ (<<"a", "i">> :> "<ai>") @@
    (<<"o">> :> "<o>") @@ (<<"a", "u">> :> "<au>") @@
    (<<"o", "M">> :> "<om>") @@ (<<"M">> :> "<anusvara>")

I2D_vowelSigns ==
    (<<"A">> :> "<-A>") @@ (<<"i">> :> "<-i>") @@ (<<"I">> :> "<-I>") @@
    (<<"u">> :> "<-u>") @@ (<<"U">> :> "<-U>") @@ (<<"R">> :> "<-R>") @@
    (<<"RR">> :> "<-RR>") @@ (<<"L">> :> "<-L>") @@ (<<"LL">> :> "<-LL>") @@
    (<<"e">> :> "<-e>") @@ (<<"a", "i">> :> "<-ai>") @@ (<<"o">> :> "<-o>") @@
    (<<"a", "u">> :> "<-au>")

I2D_consonants ==
    (<<"k">> :> "<ka>") @@ (<<"k", "h">> :> "<kha>") @@
    (<<"g">> :> "<ga>") @@ (<<"g", "h">> :> "<gha>") @@
    (<<"G">> :> "<Ga>") @@
    (<<"c">> :> "<ca>") @@ (<<"c", "h">> :> "<cha>") @@
    (<<"j">> :> "<ja>") @@ (<<"j", "h">> :> "<jha>") @@
    (<<"J">> :> "<Ja>") @@
    (<<"T">> :> "<Ta>") @@ (<<"T", "h">> :> "<Tha>") @@
    (<<"D">> :> "<Da>") @@ (<<"D", "h">> :> "<Dha>") @@
    (<<"N">> :> "<Na>") @@
    (<<"t">> :> "<ta>") @@ (<<"t", "h">> :> "<tha>") @@
    (<<"d">> :> "<da>") @@ (<<"d", "h">> :> "<dha>") @@
    (<<"n">> :> "<na>") @@
    (<<"p">> :> "<pa>") @@ (<<"p", "h">> :> "<pha>") @@
    (<<"b">> :> "<ba>") @@ (<<"b", "h">> :> "<bha>") @@
    (<<"m">> :> "<ma>") @@
    (<<"y">> :> "<ya>") @@ (<<"r">> :> "<ra>") @@
    (<<"l">> :> "<la>") @@ (<<"v">> :> "<va>") @@
    (<<"z">> :> "<za>") @@ (<<"S">> :> "<Sa>") @@
    (<<"s">> :> "<sa>") @@ (<<"h">> :> "<ha>")

I2D_special ==
    ("M" :> "<anusvara>") @@ ("M." :> "<anusvara>") @@ ("H" :> "<visarga>") @@
    ("'" :> "<avagraha>") @@
    ("0" :> "<0>") @@ ("1" :> "<1>") @@ ("2" :> "<2>") @@ ("3" :> "<3>") @@
    ("4" :> "<4>") @@ ("5" :> "<5>") @@ ("6" :> "<6>") @@ ("7" :> "<7>") @@
    ("8" :> "<8>") @@ ("9" :> "<9>")

\* the three-character sequences: an aspirated consonant and the inherent a
I2D_aspiratedWithA ==
    { <<"k", "h", "a">>, <<"g", "h", "a">>, <<"c", "h", "a">>, <<"j", "h", "a">>,
      <<"T", "h", "a">>, <<"D", "h", "a">>, <<"t", "h", "a">>, <<"d", "h", "a">>,
      <<"p", "h", "a">>, <<"b", "h", "a">> }

isConsonantAhead(t, pos) ==
    IF pos >= Len(t) THEN FALSE
    ELSE Substring(t, pos, pos + 2) \in DOMAIN I2D_consonants
         \/ <<At(t, pos)>> \in DOMAIN I2D_consonants

\* the punctuation class [.,;:!?\-—()|।॥] of isWordBoundary
I2D_punctuation ==
    {".", ",", ";", ":", "!", "?", "-", "U+2014", "(", ")", "|", "<danda>", "<ddanda>"}

isWordBoundary(char) ==
    \/ char = UNDEFINED
    \/ IsWhitespace(char) \/ char \in {"U+00A0", "U+202F", "U+2009"}
    \/ char \in I2D_punctuation

\* what iastToDevanagari emits after a consonant glyph, i being the index
\* right after the consonant unit: [out, i]
I2D_afterConsonant(t, i) ==
    IF i < Len(t)
    THEN IF i < Len(t) - 1 /\ Substring(t, i, i + 2) \in DOMAIN I2D_vowelSigns
         THEN [out |-> <<I2D_vowelSigns[Substring(t, i, i + 2)]>>, i |-> i + 2]
         ELSE IF <<At(t, i)>> \in DOMAIN I2D_vowelSigns
         THEN [out |-> <<I2D_vowelSigns[<<At(t, i)>>]>>, i |-> i + 1]
         ELSE IF At(t, i) = "a"
         THEN [out |-> <<>>, i |-> i + 1]
         ELSE IF isConsonantAhead(t, i) \/ isWordBoundary(At(t, i))
         THEN [out |-> <<VIRAMA>>, i |-> i]
         ELSE [out |-> <<>>, i |-> i]
    ELSE [out |-> <<VIRAMA>>, i |-> i]

\* one iteration of the loop of iastToDevanagari; s = [i, result]
iastToDevanagariStep(t, s) ==
    LET i == s.i
        twoChar == Substring(t, i, i + 2)
        threeChar == Substring(t, i, i + 3)
        char == At(t, i)
    IN  IF i <= Len(t) - 2 /\ twoChar = <<"o", "M">>
        THEN [i |-> i + 2, result |-> s.result \o <<"<om>">>]
        ELSE IF i < Len(t) - 2 /\ threeChar \in I2D_aspiratedWithA
        THEN [i |-> i + 3,
              result |-> s.result \o <<I2D_consonants[SubSeq(threeChar, 1, 2)]>>]
        ELSE IF i < Len(t) - 1 /\ twoChar \in DOMAIN I2D_consonants
        THEN LET after == I2D_afterConsonant(t, i + 2)
             IN  [i |-> after.i,
                  result |-> s.result \o <<I2D_consonants[twoChar]>> \o after.out]
        ELSE IF i < Len(t) - 1 /\ twoChar \in DOMAIN I2D_vowels
        THEN [i |-> i + 2, result |-> s.result \o <<I2D_vowels[twoChar]>>]
        ELSE IF <<char>> \in DOMAIN I2D_consonants
        THEN LET after == I2D_afterConsonant(t, i + 1)
             IN  [i |-> after.i,
                  result |-> s.result \o <<I2D_consonants[<<char>>]>> \o after.out]
        ELSE IF <<char>> \in DOMAIN I2D_vowels
        THEN [i |-> i + 1, result |-> s.result \o <<I2D_vowels[<<char>>]>>]
        ELSE IF char \in DOMAIN I2D_special
        THEN [i |-> i + 1, result |-> s.result \o <<I2D_special[char]>>]
        ELSE [i |-> i + 1, result |-> s.result \o <<char>>]

RECURSIVE iastToDevanagariLoop(_, _)
iastToDevanagariLoop(t, s) ==
    IF s.i < Len(t) THEN iastToDevanagariLoop(t, iastToDevanagariStep(t, s))
    ELSE s.result

iastToDevanagari(t) == iastToDevanagariLoop(t, [i |-> 0, result |-> <<>>])

\* the states [i, result] at which the loop of iastToDevanagari tests its
\* condition and enters its body, from state s on
RECURSIVE iastToDevanagariStates(_, _)
iastToDevanagariStates(t, s) ==
    IF s.i < Len(t)
    THEN {s} \cup iastToDevanagariStates(t, iastToDevanagariStep(t, s))
    ELSE {}

\* the indices read by isConsonantAhead(pos)
isConsonantAheadReads(t, pos) ==
    IF pos >= Len(t) THEN {}
    ELSE IF Substring(t, pos, pos + 2) \in DOMAIN I2D_consonants THEN {}
    ELSE {pos}

\* the indices read after a consonant glyph was emitted, i being the index
\* right after the consonant unit
I2D_afterConsonantReads(t, i) ==
    IF i < Len(t)
    THEN IF i < Len(t) - 1 /\ Substring(t, i, i + 2) \in DOMAIN I2D_vowelSigns
         THEN {}
         ELSE {i} \cup
              IF <<At(t, i)>> \in DOMAIN I2D_vowelSigns \/ At(t, i) = "a" THEN {}
              ELSE isConsonantAheadReads(t, i)
    ELSE {}

\* the indices read by one iteration of the loop of iastToDevanagari
iastToDevanagariStepReads(t, s) ==
    LET i == s.i
        twoChar == Substring(t, i, i + 2)
    IN  IF i <= Len(t) - 2 /\ twoChar = <<"o", "M">> THEN {}
        ELSE IF i < Len(t) - 2 /\ Substring(t, i, i + 3) \in I2D_aspiratedWithA
        THEN {}
        ELSE IF i < Len(t) - 1 /\ twoChar \in DOMAIN I2D_consonants
        THEN I2D_afterConsonantReads(t, i + 2)
        ELSE IF i < Len(t) - 1 /\ twoChar \in DOMAIN I2D_vowels THEN {}
        ELSE {i} \cup
             IF <<At(t, i)>> \in DOMAIN I2D_consonants
             THEN I2D_afterConsonantReads(t, i + 1)
             ELSE {}

iastToDevanagariReads(t) ==
    UNION {iastToDevanagariStepReads(t, s) :
               s \in iastToDevanagariStates(t, [i |-> 0, result |-> <<>>])}

-----------------------------------------------------------------------------
(* Bounds and input sets *)

MaxLen == 5          \* longest text handed to the holding locator
MaxMarkedLen == 4    \* longest text a mark is inserted into
MaxPauseLen == 4     \* longest text handed to the pause locator
MaxPieces == 3       \* pieces a text handed to the normalizer is made of
MaxPasses == 2       \* successive runs of the normalizer on one text
MaxConvLen == 3      \* longest text handed to a script converter
MaxConversions == 3  \* successive conversions of one text
MaxTotalLen == 3     \* longest text handed to each of the five functions
MaxCallers == 2      \* callers whose calls are interleaved
MaxLookBehindLen == 5 \* longest text whose look-behind is exercised
MaxCrossLen == 7     \* longest text with a cluster across word boundaries
MaxAfterLen == 4     \* longest text of a consonant unit and what follows it
MaxScanLen == 3      \* longest text scanned one iteration at a time
MaxApplyPieces == 5  \* pieces a document the pauses are applied to is made of

\* every sequence over alphabet of length at most n
SeqsUpTo(alphabet, n) == UNION {[1..k -> alphabet] : k \in 0..n}

\* every concatenation of at most n of the pieces
RECURSIVE PiecesUpTo(_, _)
PiecesUpTo(pieces, n) ==
    IF n = 0 THEN {<<>>}
    ELSE LET shorter == PiecesUpTo(pieces, n - 1)
         IN  shorter \cup {t \o p : t \in shorter, p \in pieces}

\* short and long vowel, plain, aspirating and skipped consonant, word
\* boundary, pause glyph, tone mark
HoldingAlphabet == {"a", "A", "k", "t", "h", "s", SPACE, PAUSE, "U+0331"}

\* the marks a user can put inside a cluster
TransparentMarks == SVARA_MARKS \cup {PAUSE}

PauseAlphabet == {"a", "A", "i", "o", "M", "t", SPACE, TAB, "U+0331"}

RamaIti == <<"r", "A", "m", "a", SPACE, "i", "t", "i">>
NaraIti == <<"n", "a", "r", "a", SPACE, "i", "t", "i">>
OmNamah == <<"o", "M", SPACE, "n", "a", "m", "a", "H">>

PauseExamples == {RamaIti, NaraIti, OmNamah}

\* the parenthesized idioms, the characters they are made of, a tone mark
\* variant and the variant anusvara
NormalizerPieces ==
    { <<"(", "g", ")">>, <<"(", "g", "U+0331", ")">>, <<"(">>, <<"g">>, <<")">>,
      <<"m">>, <<"M">>, <<"M.">>, <<"U+0332">>, <<"O">>, <<"a">> }

LatinAlphabet == {"k", "t", "h", "a", "A", "i", "M", SPACE, "x"}

DevanagariAlphabet ==
    {"<ka>", "<ta>", "<ha>", VIRAMA, "<-A>", "<a>", "<anusvara>", SPACE, "x"}

\* what the look-behind of the holding locator tells apart: short and long
\* vowel, second letter of a diphthong, nasalization mark, plain and skipped
\* consonant, word boundary, pause glyph, tone mark
LookBehindAlphabet == {"a", "A", "i", "M", "k", "s", SPACE, PAUSE, "U+0331"}

\* a vowel, two consonants, the word boundary and the pause glyph
CrossAlphabet == {"a", "k", "t", SPACE, PAUSE}

\* letters that begin a longer unit (a of ai, k of kh, o of the om pattern,
\* the parenthesis of an idiom, ka and virama of a ligature) and what would
\* complete them
TotalityAlphabet ==
    {"a", "i", "k", "h", "o", "M", SPACE, "(", "g", "<ka>", VIRAMA, "<Sa>"}

-----------------------------------------------------------------------------
(* The engine as the host calls it: one text, one operation at a time *)

NoEdit == <<>>

\* new SanskritRules(): the fields the constructor assigns
SanskritRulesConstructor ==
    [SKIP_CONSONANTS |-> SKIP_CONSONANTS,
     ALL_CONSONANTS |-> ALL_CONSONANTS,
     SHORT_VOWELS |-> SHORT_VOWELS,
     LONG_VOWELS |-> LONG_VOWELS,
     VOWELS |-> VOWELS,
     SVARA_MARKS |-> SVARA_MARKS,
     TWO_CHAR_CONSONANTS |-> TWO_CHAR_CONSONANTS]

\* a caller that is in no call
Idle == [op |-> "none"]

InitWith(texts) ==
    /\ text \in texts
    /\ pc = "ready"
    /\ normalized = <<>>
    /\ converted = <<>>
    /\ holdings = <<>>
    /\ pauses = <<>>
    /\ edit = NoEdit
    /\ rules = SanskritRulesConstructor
    /\ calls = [c \in 1..MaxCallers |-> Idle]

\* text.slice(0, p) + mark + text.slice(p)
InsertAt(t, p, mark) == SubSeq(t, 1, p) \o <<mark>> \o SubSeq(t, p + 1, Len(t))

\* a consonant unit ends at index p and another one starts there
InsideCluster(t, p) ==
    /\ isConsonant(t, p) # NoUnit
    /\ \E q \in 0..(p - 1) :
           isConsonant(t, q) # NoUnit /\ q + Len(isConsonant(t, q)) = p

\* findAllHoldings applied to the text, as applyAutomaticHoldings calls it;
\* a second run after an edit of the text is recorded apart from the first
LocateHoldings ==
    /\ pc \in {"ready", "marked"}
    /\ holdings' = findAllHoldings(text)
    /\ pc' = IF pc = "ready" THEN "located" ELSE "relocated"
    /\ UNCHANGED <<text, normalized, converted, pauses, edit, rules, calls>>

\* applySvara, or a typed pause glyph: one mark is inserted at the cursor,
\* here between two consonant units of a text whose holdings were located
InsertMark ==
    /\ pc = "located"
    /\ \E p \in 1..(Len(text) - 1), mark \in TransparentMarks :
           /\ InsideCluster(text, p)
           /\ text' = InsertAt(text, p, mark)
           /\ edit' = [at |-> p, mark |-> mark, before |-> text,
                       holdingsBefore |-> holdings]
    /\ holdings' = <<>>
    /\ pc' = "marked"
    /\ UNCHANGED <<normalized, converted, pauses, rules, calls>>

\* findAllPauses applied to the text, as applyAutomaticPauses calls it
LocatePauses ==
    /\ pc = "ready"
    /\ pauses' = findAllPauses(text)
    /\ pc' = "located"
    /\ UNCHANGED <<text, normalized, converted, holdings, edit, rules, calls>>

\* the text the next normalizer pass or conversion works on
Current(history) ==
    IF history = <<>> THEN text ELSE history[Len(history)].text

\* preProcessRawText applied to the text, and again to its own result each
\* time applyAutomaticHoldings or applyAutomaticPauses runs on the document
PreProcess ==
    /\ Len(normalized) < MaxPasses
    /\ normalized' = Append(normalized,
                            [text |-> preProcessRawText(Current(normalized))])
    /\ pc' = "normalized"
    /\ UNCHANGED <<text, converted, holdings, pauses, edit, rules, calls>>

\* iastToDevanagari applied to the text or to the result of the conversion
\* before, as transliterateIASTToDevanagari does for each run of text
TransliterateIASTToDevanagari ==
    /\ Len(converted) < MaxConversions
    /\ converted' = Append(converted,
                           [to |-> "devanagari",
                            text |-> iastToDevanagari(Current(converted))])
    /\ pc' = "converted"
    /\ UNCHANGED <<text, normalized, holdings, pauses, edit, rules, calls>>

\* devanagariToIAST applied to the text or to the result of the conversion
\* before, as transliterateDevanagariToIAST does for each run of text
TransliterateDevanagariToIAST ==
    /\ Len(converted) < MaxConversions
    /\ converted' = Append(converted,
                           [to |-> "iast",
                            text |-> devanagariToIAST(Current(converted))])
    /\ pc' = "converted"
    /\ UNCHANGED <<text, normalized, holdings, pauses, edit, rules, calls>>

InitHoldings == InitWith(SeqsUpTo(HoldingAlphabet, MaxLen))

NextHoldings == LocateHoldings

SpecHoldings == InitHoldings /\ [][NextHoldings]_vars

InitTransparency == InitWith(SeqsUpTo(HoldingAlphabet, MaxMarkedLen))

NextTransparency == LocateHoldings \/ InsertMark

SpecTransparency == InitTransparency /\ [][NextTransparency]_vars

InitPauses == InitWith(SeqsUpTo(PauseAlphabet, MaxPauseLen) \cup PauseExamples)

NextPauses == LocatePauses

SpecPauses == InitPauses /\ [][NextPauses]_vars

InitNormalizer == InitWith(PiecesUpTo(NormalizerPieces, MaxPieces))

NextNormalizer == PreProcess

SpecNormalizer == InitNormalizer /\ [][NextNormalizer]_vars

InitConverter ==
    InitWith(SeqsUpTo(LatinAlphabet, MaxConvLen)
             \cup SeqsUpTo(DevanagariAlphabet, MaxConvLen))

NextConverter == TransliterateIASTToDevanagari \/ TransliterateDevanagariToIAST

SpecConverter == InitConverter /\ [][NextConverter]_vars

\* a plain consonant, the aspiration letter, the inherent vowel, a long
\* vowel and the second letters of the two diphthongs
AfterConsonantAlphabet == {"k", "h", "a", "A", "i", "u"}

InitAfterConsonant == InitWith(SeqsUpTo(AfterConsonantAlphabet, MaxAfterLen))

NextAfterConsonant == TransliterateIASTToDevanagari

SpecAfterConsonant == InitAfterConsonant /\ [][NextAfterConsonant]_vars

InitLookBehind == InitWith(SeqsUpTo(LookBehindAlphabet, MaxLookBehindLen))

NextLookBehind == LocateHoldings

SpecLookBehind == InitLookBehind /\ [][NextLookBehind]_vars

InitCross == InitWith(SeqsUpTo(CrossAlphabet, MaxCrossLen))

NextCross == LocateHoldings

SpecCross == InitCross /\ [][NextCross]_vars

\* the engine operations a caller can invoke
Operations ==
    {"isConsonant", "isVowel", "preProcessRawText", "findAllHoldings",
     "findAllPauses", "devanagariToIAST", "iastToDevanagari"}

\* the operations that run a loop over the text
LoopOperations ==
    {"findAllHoldings", "findAllPauses", "devanagariToIAST", "iastToDevanagari"}

\* texts on which the operations differ: a hiatus, a cluster after a vowel,
\* a Devanagari syllable, an idiom to normalize
CallInputs ==
    { <<"a", SPACE, "a">>, <<"a", "k", "k">>, <<"<ka>", "<-A>">>,
      <<"(", "g", ")", "m">> }

\* the locals of a call when it is entered
EnterCall(op, t) ==
    [op |-> op, input |-> t, done |-> FALSE,
     locals |-> CASE op = "findAllHoldings" -> [i |-> 0, holdings |-> <<>>]
                  [] op = "findAllPauses" -> [i |-> 0, pauses |-> <<>>]
                  [] OTHER -> [i |-> 0, result |-> <<>>]]

\* the result of the operation when it runs alone
Alone(op, t) ==
    CASE op = "isConsonant" -> isConsonant(t, 1)
      [] op = "isVowel" -> isVowel(t, 0)
      [] op = "preProcessRawText" -> preProcessRawText(t)
      [] op = "findAllHoldings" -> findAllHoldings(t)
      [] op = "findAllPauses" -> findAllPauses(t)
      [] op = "devanagariToIAST" -> devanagariToIAST(t)
      [] op = "iastToDevanagari" -> iastToDevanagari(t)

\* one iteration of the loop of a call, on its own locals
LoopStep(call) ==
    CASE call.op = "findAllHoldings" -> findAllHoldingsStep(call.input, call.locals)
      [] call.op = "findAllPauses" -> findAllPausesStep(call.input, call.locals)
      [] call.op = "devanagariToIAST" -> devanagariToIASTStep(call.input, call.locals)
      [] call.op = "iastToDevanagari" -> iastToDevanagariStep(call.input, call.locals)

\* the value a loop operation returns from its locals
LoopResult(call) ==
    CASE call.op = "findAllHoldings" -> call.locals.holdings
      [] call.op = "findAllPauses" -> call.locals.pauses
      [] OTHER -> call.locals.result

\* mutant: a call leaves a table of the shared object changed
rulesAfterStep_marksCleared(r) == [r EXCEPT !.SVARA_MARKS = {}]

\* the shared tables after a step of a call: no method assigns to a field of
\* this or this.rules or calls a mutating method of a table
rulesAfterStep(r) == r

\* a caller enters an operation on some input
Call ==
    /\ \E c \in 1..MaxCallers, op \in Operations, t \in CallInputs :
           /\ calls[c] = Idle
           /\ calls' = [calls EXCEPT ![c] = EnterCall(op, t)]
    /\ rules' = rules
    /\ UNCHANGED <<text, pc, normalized, converted, holdings, pauses, edit>>

\* a call in progress runs one iteration of its loop, or returns when the
\* loop condition fails; an operation without a loop over the text runs whole
StepCall ==
    /\ \E c \in 1..MaxCallers :
           LET call == calls[c]
           IN  /\ call # Idle /\ ~call.done
               /\ calls' = [calls EXCEPT ![c] =
                     IF call.op \in LoopOperations
                     THEN IF call.locals.i < Len(call.input)
                          THEN [call EXCEPT !.locals = LoopStep(call)]
                          ELSE [call EXCEPT !.done = TRUE,
                                            !.locals = LoopResult(call)]
                     ELSE [call EXCEPT !.done = TRUE,
                                       !.locals = Alone(call.op, call.input)]]
    /\ rules' = rulesAfterStep(rules)
    /\ UNCHANGED <<text, pc, normalized, converted, holdings, pauses, edit>>

\* the caller takes the returned value; its next call starts afresh
Return ==
    /\ \E c \in 1..MaxCallers :
           /\ calls[c] # Idle /\ calls[c].done
           /\ calls' = [calls EXCEPT ![c] = Idle]
    /\ UNCHANGED <<text, pc, normalized, converted, holdings, pauses, edit, rules>>

InitCalls == InitWith({<<>>})

NextCalls == Call \/ StepCall \/ Return

SpecCalls == InitCalls /\ [][NextCalls]_vars

InitTotality == InitWith(SeqsUpTo(TotalityAlphabet, MaxTotalLen))

\* each of the five functions applied once to the text
NextTotality ==
    \/ pc = "ready" /\ LocateHoldings
    \/ pc = "ready" /\ LocatePauses
    \/ pc = "ready" /\ PreProcess
    \/ pc = "ready" /\ TransliterateIASTToDevanagari
    \/ pc = "ready" /\ TransliterateDevanagariToIAST

SpecTotality == InitTotality /\ [][NextTotality]_vars

Init ==
    InitWith(SeqsUpTo({"a", "A", "k", "s", SPACE}, MaxConvLen))

Next ==
    \/ LocateHoldings
    \/ InsertMark
    \/ LocatePauses
    \/ PreProcess
    \/ TransliterateIASTToDevanagari
    \/ TransliterateDevanagariToIAST

Spec == Init /\ [][Next]_vars

-----------------------------------------------------------------------------
(* The scanning loops, one iteration at a time *)

\* the operations that scan the text in a loop
ScanOperations ==
    {"findAllHoldings", "findAllPauses", "devanagariToIAST", "iastToDevanagari",
     "findPreviousVowel", "findSamyuktaLength", "findHoldingPosition"}

\* those that are called with an index besides the text
ScanWithPos == {"findPreviousVowel", "findSamyuktaLength", "findHoldingPosition"}

\* the loops of findHoldingPosition, in the order they are run, and the
\* single loop of every other operation
PhaseRank ==
    ("traverse" :> 1) @@ ("toEnd" :> 2) @@ ("skip" :> 2) @@ ("loop" :> 1) @@
    ("done" :> 3)

\* a scan that has returned value; the field holds <<>> before the return
Returned(call, value) == [call EXCEPT !.phase = "done", !.value = <<value>>]

\* the locals of findHoldingPosition(text, pos) when its first loop is
\* reached, or the value it returns before
EnterFindHoldingPosition(call) ==
    LET t == call.input
        pos == call.pos
        consonant == isConsonant(t, pos)
        found == findPreviousVowel(t, pos, TRUE)
    IN  IF consonant = NoUnit THEN Returned(call, NoHolding)
        ELSE IF belowThreshold(findSamyuktaLength(t, pos, FALSE))
        THEN Returned(call, NoHolding)
        ELSE IF found.vowel = NoUnit
        THEN IF found.blocked
             THEN Returned(call, [position |-> pos, length |-> Len(consonant),
                                  type |-> "short"])
             ELSE Returned(call, NoHolding)
        ELSE [call EXCEPT
                !.phase = "traverse",
                !.i = pos,
                !.more = [holdingType |-> IF found.vowel \in LONG_VOWELS
                                          THEN "long" ELSE "short",
                          holdingLength |-> Len(consonant),
                          holdingPosition |-> pos,
                          passedOverSpace |-> FALSE,
                          lastConsonantBeforeSpace |-> NoUnit,
                          lastConsonantBeforeSpacePos |-> -1]]

\* the scan when the operation is entered: the loop index and the other
\* locals as they are initialized before the loop
EnterScan(op, t, pos) ==
    LET call == [op |-> op, input |-> t, pos |-> pos, phase |-> "loop",
                 i |-> 0, more |-> <<>>, value |-> <<>>]
    IN  CASE op = "findPreviousVowel" -> [call EXCEPT !.i = pos - 1]
          [] op = "findSamyuktaLength" ->
                 [call EXCEPT !.i = pos, !.more = [length |-> 0]]
          [] op = "findHoldingPosition" -> EnterFindHoldingPosition(call)
          [] OTHER -> call

\* the condition of the loop the scan is in
LoopCondition(call) ==
    CASE call.phase = "skip" ->
             /\ isConsonant(call.input, call.i) # NoUnit
             /\ isConsonant(call.input, call.i) \in SKIP_CONSONANTS
      [] call.phase = "loop" /\ call.op = "findPreviousVowel" -> call.i >= 0
      [] OTHER -> call.i < Len(call.input)

\* one iteration of the loop of findPreviousVowel, blockAtSpace being true
findPreviousVowelStep(call) ==
    LET t == call.input
        c == At(t, call.i)
    IN  IF c = PAUSE THEN [call EXCEPT !.i = call.i - 1]
        ELSE IF isSvaraMark(c) THEN [call EXCEPT !.i = call.i - 1]
        ELSE IF IsWhitespace(c)
        THEN Returned(call, [vowel |-> NoUnit, blocked |-> TRUE, position |-> -1])
        ELSE IF c \in {"M", "M.", "H"}
        THEN Returned(call, [vowel |-> <<c>>, blocked |-> FALSE, position |-> call.i])
        ELSE IF isVowel(t, call.i) # NoUnit
        THEN Returned(call, [vowel |-> isVowel(t, call.i), blocked |-> FALSE,
                             position |-> call.i])
        ELSE [call EXCEPT !.i = call.i - 1]

\* one iteration of the loop of findSamyuktaLength, countMarks being false
findSamyuktaLengthStep(call) ==
    LET t == call.input
        c == At(t, call.i)
        consonant == isConsonant(t, call.i)
    IN  IF IsWhitespace(c) \/ c = NEWLINE THEN [call EXCEPT !.i = call.i + 1]
        ELSE IF c = PAUSE THEN [call EXCEPT !.i = call.i + 1]
        ELSE IF consonant # NoUnit
        THEN [call EXCEPT !.i = call.i + Len(consonant),
                          !.more.length = call.more.length + 1]
        ELSE Returned(call, call.more.length)

\* one iteration of the traversal loop of findHoldingPosition
traverseSamyuktaStep(call) ==
    LET t == call.input
        m == call.more
        c == At(t, call.i)
        first == isConsonant(t, m.holdingPosition)
        cons == isConsonant(t, call.i)
    IN  IF IsWhitespace(c) \/ c = NEWLINE
        THEN [call EXCEPT
                !.i = call.i + 1,
                !.more = IF ~m.passedOverSpace /\ first # NoUnit
                         THEN [m EXCEPT !.passedOverSpace = TRUE,
                                        !.lastConsonantBeforeSpace = first,
                                        !.lastConsonantBeforeSpacePos =
                                            m.holdingPosition]
                         ELSE [m EXCEPT !.passedOverSpace = TRUE]]
        ELSE IF c = PAUSE THEN [call EXCEPT !.i = call.i + 1]
        ELSE IF isSvaraMark(c) THEN [call EXCEPT !.i = call.i + 1]
        ELSE IF cons = NoUnit
        THEN [call EXCEPT !.phase = "skip", !.i = m.holdingPosition]
        ELSE IF m.passedOverSpace
        THEN [call EXCEPT
                !.phase = "toEnd",
                !.i = call.i + Len(cons),
                !.more = IF cons = m.lastConsonantBeforeSpace
                         THEN [m EXCEPT
                                 !.holdingPosition = m.lastConsonantBeforeSpacePos,
                                 !.holdingLength = Len(m.lastConsonantBeforeSpace)]
                         ELSE [m EXCEPT !.holdingPosition = call.i,
                                        !.holdingLength = Len(cons)]]
        ELSE [call EXCEPT !.i = call.i + Len(cons)]

\* the holding that is returned with endPos
holdingWithEndPos(call) ==
    [position |-> call.more.holdingPosition, length |-> call.more.holdingLength,
     type |-> call.more.holdingType, endPos |-> call.i]

\* one iteration of a loop of findHoldingPosition that runs to the end of
\* the samyukta
scanToSamyuktaEndStep(call) ==
    LET nextCons == isConsonant(call.input, call.i)
    IN  IF isSvaraMark(At(call.input, call.i)) THEN [call EXCEPT !.i = call.i + 1]
        ELSE IF nextCons = NoUnit THEN Returned(call, holdingWithEndPos(call))
        ELSE [call EXCEPT !.i = call.i + Len(nextCons)]

\* mutant: a skipped consonant is looked at again
skipSkipConsonantsStep_stays(call) == call

\* one iteration of the loop of findHoldingPosition over SKIP_CONSONANTS;
\* the index is holdingPosition
skipSkipConsonantsStep(call) ==
    [call EXCEPT !.i = call.i + Len(isConsonant(call.input, call.i))]

\* one iteration of the loop the scan is in
ScanIterate(call) ==
    LET t == call.input
    IN  CASE call.op = "findAllHoldings" ->
                 LET n == findAllHoldingsStep(t, [i |-> call.i, holdings |-> call.more])
                 IN  [call EXCEPT !.i = n.i, !.more = n.holdings]
          [] call.op = "findAllPauses" ->
                 LET n == findAllPausesStep(t, [i |-> call.i, pauses |-> call.more])
                 IN  [call EXCEPT !.i = n.i, !.more = n.pauses]
          [] call.op = "devanagariToIAST" ->
                 LET n == devanagariToIASTStep(t, [i |-> call.i, result |-> call.more])
                 IN  [call EXCEPT !.i = n.i, !.more = n.result]
          [] call.op = "iastToDevanagari" ->
                 LET n == iastToDevanagariStep(t, [i |-> call.i, result |-> call.more])
                 IN  [call EXCEPT !.i = n.i, !.more = n.result]
          [] call.op = "findPreviousVowel" -> findPreviousVowelStep(call)
          [] call.op = "findSamyuktaLength" -> findSamyuktaLengthStep(call)
          [] call.op = "findHoldingPosition" /\ call.phase = "traverse" ->
                 traverseSamyuktaStep(call)
          [] call.op = "findHoldingPosition" /\ call.phase = "toEnd" ->
                 scanToSamyuktaEndStep(call)
          [] call.op = "findHoldingPosition" /\ call.phase = "skip" ->
                 skipSkipConsonantsStep(call)

\* what follows the loop the scan is in when its condition fails
ScanExit(call) ==
    LET currentCons == isConsonant(call.input, call.i)
    IN  CASE call.phase = "traverse" ->
                 [call EXCEPT !.phase = "skip", !.i = call.more.holdingPosition]
          [] call.phase = "toEnd" -> Returned(call, holdingWithEndPos(call))
          [] call.phase = "skip" ->
                 IF currentCons # NoUnit
                 THEN Returned(call, [position |-> call.i,
                                      length |-> Len(currentCons),
                                      type |-> call.more.holdingType])
                 ELSE Returned(call, NoHolding)
          [] call.op = "findPreviousVowel" ->
                 Returned(call, [vowel |-> NoUnit, blocked |-> FALSE,
                                 position |-> -1])
          [] call.op = "findSamyuktaLength" -> Returned(call, call.more.length)
          [] OTHER -> Returned(call, call.more)

\* the value the operation of the scan returns, computed at once
ScanResult(call) ==
    CASE call.op = "findAllHoldings" -> findAllHoldings(call.input)
      [] call.op = "findAllPauses" -> findAllPauses(call.input)
      [] call.op = "devanagariToIAST" -> devanagariToIAST(call.input)
      [] call.op = "iastToDevanagari" -> iastToDevanagari(call.input)
      [] call.op = "findPreviousVowel" ->
             findPreviousVowel(call.input, call.pos, TRUE)
      [] call.op = "findSamyuktaLength" ->
             findSamyuktaLength(call.input, call.pos, FALSE)
      [] call.op = "findHoldingPosition" ->
             findHoldingPosition(call.input, call.pos)

\* the loop of the scan runs one iteration
IterateScan ==
    /\ calls[1].phase # "done"
    /\ LoopCondition(calls[1])
    /\ calls' = [calls EXCEPT ![1] = ScanIterate(calls[1])]
    /\ UNCHANGED <<text, pc, normalized, converted, holdings, pauses, edit, rules>>

\* the condition of the loop fails: the next loop is entered or the
\* operation returns
ExitScan ==
    /\ calls[1].phase # "done"
    /\ ~LoopCondition(calls[1])
    /\ calls' = [calls EXCEPT ![1] = ScanExit(calls[1])]
    /\ UNCHANGED <<text, pc, normalized, converted, holdings, pauses, edit, rules>>

\* what the loops tell apart: vowel, plain and skipped consonant, word
\* boundary, pause glyph, tone mark; a Devanagari syllable with virama
\* clusters across a word boundary: dvirvacana, a tone mark and a skipped
\* consonant after the boundary, a pause glyph at the boundary
ScanExamples ==
    { <<"a", "k", SPACE, "k", "a">>,
      <<"a", "s", SPACE, "k", "U+0331", "t", "a">>,
      <<"A", "k", PAUSE, SPACE, "s", "k">> }

ScanInputs ==
    SeqsUpTo({"a", "k", "s", SPACE, PAUSE, "U+0331"}, MaxScanLen)
        \cup SeqsUpTo({"<ka>", VIRAMA, "<-A>"}, MaxScanLen)
        \cup ScanExamples

InitScan ==
    \E op \in ScanOperations, t \in ScanInputs :
        \E pos \in IF op \in ScanWithPos THEN 0..Len(t) ELSE {0} :
            /\ text = t
            /\ pc = "ready"
            /\ normalized = <<>>
            /\ converted = <<>>
            /\ holdings = <<>>
            /\ pauses = <<>>
            /\ edit = NoEdit
            /\ rules = SanskritRulesConstructor
            /\ calls = [c \in 1..MaxCallers |->
                           IF c = 1 THEN EnterScan(op, t, pos) ELSE Idle]

NextScan == IterateScan \/ ExitScan

\* the engine runs on the single thread of the page: a loop that can run
\* an iteration, or leave, does so
SpecScan ==
    InitScan /\ [][NextScan]_vars /\ WF_vars(IterateScan) /\ WF_vars(ExitScan)

-----------------------------------------------------------------------------
(* SiksamitraEditor.applyAutomaticPauses on the document of the editor *)

\* quill.insertText(index, str): the document with str inserted at index
insertText(doc, index, str) ==
    SubSeq(doc, 1, index) \o str \o SubSeq(doc, index + 1, Len(doc))

\* quill.deleteText(index, length)
deleteText(doc, index, length) ==
    SubSeq(doc, 1, index) \o SubSeq(doc, index + length + 1, Len(doc))

\* the text inserted for a pause: the pause glyph and a space
PauseText == <<PAUSE, SPACE>>

\* a pause put into a list sorted by descending position, after the pauses
\* of the same position
RECURSIVE insertDescending(_, _)
insertDescending(sorted, pause) ==
    IF sorted = <<>> THEN <<pause>>
    ELSE IF Head(sorted).position >= pause.position
         THEN <<Head(sorted)>> \o insertDescending(Tail(sorted), pause)
         ELSE <<pause>> \o sorted

\* the first n pauses sorted by (a, b) => b.position - a.position
RECURSIVE sortFirst(_, _)
sortFirst(ps, n) ==
    IF n = 0 THEN <<>> ELSE insertDescending(sortFirst(ps, n - 1), ps[n])

\* mutant: the pauses are applied in the order they were found
sortPauses_asFound(ps) == ps

\* pauses.sort((a, b) => b.position - a.position)
sortPauses(ps) == sortFirst(ps, Len(ps))

\* the loop over the sorted pauses: the first n of them inserted, one after
\* the other, each at startIndex + pause.position of the document as it is
RECURSIVE insertPauses(_, _, _, _)
insertPauses(doc, startIndex, ps, n) ==
    IF n = 0 THEN doc
    ELSE insertText(insertPauses(doc, startIndex, ps, n - 1),
                    startIndex + ps[n].position, PauseText)

\* applyAutomaticPauses with the selection (startIndex, textLength):
\* the standardized selection, the sorted pauses and the document after
applyAutomaticPauses(doc, startIndex, textLength) ==
    LET selected == Substring(doc, startIndex, startIndex + textLength)
        processedText == preProcessRawText(selected)
        standardized ==
            IF selected # processedText
            THEN insertText(deleteText(doc, startIndex, textLength),
                            startIndex, processedText)
            ELSE doc
        found == findAllPauses(processedText)
        sorted == sortPauses(found)
    IN  [text |-> processedText,
         standardized |-> standardized,
         pauses |-> IF found = <<>> THEN <<>> ELSE sorted,
         document |-> IF found = <<>> THEN standardized
                      ELSE insertPauses(standardized, startIndex, sorted,
                                        Len(sorted))]

\* the user selects a part of the document and applies the automatic pauses
ApplyAutomaticPauses ==
    /\ pc = "ready"
    /\ \E startIndex \in 0..(Len(text) - 1) :
           \E textLength \in 1..(Len(text) - startIndex) :
               LET r == applyAutomaticPauses(text, startIndex, textLength)
               IN  /\ text' = r.document
                   /\ normalized' = <<[text |-> r.text]>>
                   /\ pauses' = r.pauses
                   /\ edit' = [at |-> startIndex, length |-> textLength,
                               before |-> text, standardized |-> r.standardized]
    /\ pc' = "applied"
    /\ UNCHANGED <<converted, holdings, rules, calls>>

\* the pieces of a document: a vowel, the word boundary, the letter o and
\* the parenthesized idiom that the normalizer turns into the anusvara
ApplyPieces == { <<"a">>, <<SPACE>>, <<"o">>, <<"(", "g", ")", "m">> }

InitApply == InitWith(PiecesUpTo(ApplyPieces, MaxApplyPieces))

NextApply == ApplyAutomaticPauses

SpecApply == InitApply /\ [][NextApply]_vars

-----------------------------------------------------------------------------
(* Claims *)

\* C1: preProcessRawText is idempotent: a second pass over a normalized
\* text returns it unchanged, also for adjacent parenthesized idioms.
C1_NormalizeIdempotent ==
    Len(normalized) >= 2 => normalized[2].text = normalized[1].text

\* the characters of the round trip's texts: the letters of the consonant
\* and vowel tables, the virama and the punctuation table
RoundTripCharacters ==
    UNION {{k[j] : j \in 1..Len(k)} : k \in DOMAIN I2D_consonants \cup DOMAIN I2D_vowels}
    \cup {VIRAMA} \cup DOMAIN I2D_special

\* C2: round trip: for a text t of consonants, vowels, virama and fixed
\* punctuation, iastToDevanagari(devanagariToIAST(iastToDevanagari(t)))
\* equals iastToDevanagari(t).
C2_RoundTrip ==
    ( /\ Len(converted) >= 3
      /\ converted[1].to = "devanagari"
      /\ converted[2].to = "iast"
      /\ converted[3].to = "devanagari"
      /\ \A j \in 1..Len(text) : text[j] \in RoundTripCharacters )
    => converted[3].text = converted[1].text

\* the consonant glyphs: the one-character keys of the consonant table
ConsonantGlyphs == {k[1] : k \in {q \in DOMAIN D2I_consonants : Len(q) = 1}}

\* C3: conjunct preservation: consonant + virama + consonant converted with
\* devanagariToIAST and back with iastToDevanagari is reproduced exactly.
C3_ConjunctPreserved ==
    ( /\ Len(converted) >= 2
      /\ converted[1].to = "iast"
      /\ converted[2].to = "devanagari"
      /\ Len(text) = 3
      /\ text[1] \in ConsonantGlyphs
      /\ text[2] = VIRAMA
      /\ text[3] \in ConsonantGlyphs )
    => converted[2].text = text

\* a code unit a cluster is made of: consonant, whitespace, pause, tone mark
ClusterCodeUnit(c) ==
    <<c>> \in ALL_CONSONANTS \/ IsWhitespace(c) \/ c = PAUSE \/ isSvaraMark(c)

\* index position of t lies in the cluster around index p
SameCluster(t, position, p) ==
    \A q \in 0..(Len(t) - 1) :
        ((position <= q /\ q < p) \/ (p <= q /\ q <= position))
            => ClusterCodeUnit(At(t, q))

\* C4: transparency: a tone mark or pause glyph inserted between two
\* consonant units of a cluster that has a span leaves the span's kind and
\* consonant as they were; only its offset moves by the inserted character.
C4_Transparency ==
    pc = "relocated" =>
        \A k \in 1..Len(edit.holdingsBefore) :
            LET h == edit.holdingsBefore[k]
                shifted == IF h.position >= edit.at THEN h.position + 1
                           ELSE h.position
            IN  SameCluster(edit.before, h.position, edit.at) =>
                    \E j \in 1..Len(holdings) :
                        /\ holdings[j].type = h.type
                        /\ holdings[j].length = h.length
                        /\ holdings[j].position = shifted

\* the consonant units that follow each other from index i on
RECURSIVE ConsonantRun(_, _)
ConsonantRun(t, i) ==
    IF isConsonant(t, i) = NoUnit THEN <<>>
    ELSE <<[pos |-> i, unit |-> isConsonant(t, i)]>>
         \o ConsonantRun(t, i + Len(isConsonant(t, i)))

\* C5: dvirvacana: when a word ends, after a vowel, in consonants of which
\* the last equals the consonant right after the single whitespace, the
\* span is on that last consonant of the first word and not on the second
\* word's first consonant, however many consonants end the first word.
C5_DvirvacanaPlacement ==
    pc = "located" =>
        \A s \in 1..(Len(text) - 1) :
            LET run == ConsonantRun(text, s)
                last == run[Len(run)]
                end == last.pos + Len(last.unit)
            IN  ( /\ <<At(text, s - 1)>> \in VOWELS
                  /\ run # <<>>
                  /\ IsWhitespace(At(text, end))
                  /\ isConsonant(text, end + 1) = last.unit )
                => /\ \E k \in 1..Len(holdings) :
                          /\ holdings[k].position = last.pos
                          /\ holdings[k].length = Len(last.unit)
                   /\ \A k \in 1..Len(holdings) : holdings[k].position # end + 1

\* C6 as the specification states it: "rama iti" (with long first a)
\* yields one long pause right after the space, "nara iti" one short pause.
C6_SandhiExamples ==
    pc = "located" =>
        /\ text = RamaIti => pauses = <<[position |-> 5, type |-> "long"]>>
        /\ text = NaraIti => pauses = <<[position |-> 5, type |-> "short"]>>

\* C6 amended: "rama iti" and "nara iti" both end their first word in the
\* short vowel a, so each yields exactly one pause, of kind short, at the
\* index right after the space.
C6_SandhiExamplesAmended ==
    pc = "located" =>
        /\ text = RamaIti => pauses = <<[position |-> 5, type |-> "short"]>>
        /\ text = NaraIti => pauses = <<[position |-> 5, type |-> "short"]>>

\* C6 reached: the pauses of "rama iti" were located and there is one
C6_Witness == pc = "located" /\ text = RamaIti /\ Len(pauses) = 1

\* C7: no span of findAllHoldings starts on a consonant of SKIP_CONSONANTS.
C7_SkipNeverPlaced ==
    pc = "located" =>
        \A k \in 1..Len(holdings) :
            isConsonant(text, holdings[k].position) \notin SKIP_CONSONANTS

\* the first index from j on that holds neither whitespace nor a pause glyph
RECURSIVE AfterGap(_, _)
AfterGap(t, j) ==
    IF j < Len(t) /\ (IsWhitespace(At(t, j)) \/ At(t, j) = PAUSE)
    THEN AfterGap(t, j + 1)
    ELSE j

\* the consonant unit at i is followed, directly or after whitespace and
\* pause glyphs only, by another consonant unit
StartsCluster(t, i) ==
    /\ isConsonant(t, i) # NoUnit
    /\ isConsonant(t, AfterGap(t, i + Len(isConsonant(t, i)))) # NoUnit

\* C8: cluster threshold: no holding is found from a consonant that starts
\* a cluster of length <= 1, and a text without two consonant units that
\* are adjacent or separated only by whitespace and pause glyphs has no span.
C8_ClusterThreshold ==
    pc = "located" =>
        /\ \A i \in 0..(Len(text) - 1) :
               (findHoldingPosition(text, i).length > 0) => StartsCluster(text, i)
        /\ (\A i \in 0..(Len(text) - 1) : ~StartsCluster(text, i))
               => holdings = <<>>

\* C8 reached: a consonant follows a vowel, no consonant starts a cluster,
\* and the located holdings are empty
C8_Witness ==
    /\ pc = "located"
    /\ holdings = <<>>
    /\ \A i \in 0..(Len(text) - 1) : ~StartsCluster(text, i)
    /\ \E i \in 1..(Len(text) - 1) :
           <<At(text, i - 1)>> \in VOWELS /\ isConsonant(text, i) # NoUnit

\* C9: om pause: "om" followed by a whitespace character (space, tab or
\* newline) yields a short pause right after that whitespace; for
\* "om namah" it is the only pause.
C9_OmPause ==
    pc = "located" =>
        /\ \A i \in 0..(Len(text) - 3) :
               ( /\ At(text, i) = "o"
                 /\ At(text, i + 1) = "M"
                 /\ At(text, i + 2) \in {SPACE, TAB, NEWLINE} )
               => \E k \in 1..Len(pauses) :
                      pauses[k] = [position |-> i + 3, type |-> "short"]
        /\ text = OmNamah => pauses = <<[position |-> 3, type |-> "short"]>>

\* C10: the spans of findAllHoldings are in strictly increasing position
\* order and do not overlap.
C10_OrderedDisjoint ==
    pc = "located" =>
        \A k \in 1..(Len(holdings) - 1) :
            holdings[k].position + holdings[k].length <= holdings[k + 1].position

\* C10 reached: two spans were located, the first on a two-letter consonant
C10_Witness ==
    pc = "located" /\ Len(holdings) >= 2 /\ holdings[1].length = 2

\* the characters the tables of devanagariToIAST know
D2I_tableCharacters ==
    DOMAIN D2I_vowels \cup DOMAIN D2I_vowelSigns \cup DOMAIN D2I_special
    \cup UNION {{k[j] : j \in 1..Len(k)} : k \in DOMAIN D2I_consonants}

\* the characters the tables of iastToDevanagari know
I2D_tableCharacters ==
    DOMAIN I2D_special
    \cup UNION {{k[j] : j \in 1..Len(k)} :
                   k \in DOMAIN I2D_vowels \cup DOMAIN I2D_vowelSigns
                         \cup DOMAIN I2D_consonants}

D2I_unrecognized(c) == c \notin D2I_tableCharacters /\ c # VIRAMA

I2D_unrecognized(c) == c \notin I2D_tableCharacters /\ c # VIRAMA

IsPrefix(p, t) == Len(p) <= Len(t) /\ SubSeq(t, 1, Len(p)) = p

\* the text the k-th conversion of the history was applied to
SourceOf(k) == IF k = 1 THEN text ELSE converted[k - 1].text

\* C11 for devanagariToIAST applied to src with output out
D2I_PassThrough(src, out) ==
    LET states == devanagariToIASTStates(src, [i |-> 0, result |-> <<>>])
    IN  /\ \A s \in states :
               LET n == devanagariToIASTStep(src, s)
               IN  /\ IsPrefix(s.result, n.result)
                   /\ IsPrefix(n.result, out)
                   /\ D2I_unrecognized(At(src, s.i))
                          => n = [i |-> s.i + 1,
                                  result |-> Append(s.result, At(src, s.i))]
        /\ \A j \in 0..(Len(src) - 1) :
               D2I_unrecognized(At(src, j)) => \E s \in states : s.i = j
        /\ (\A j \in 0..(Len(src) - 1) : D2I_unrecognized(At(src, j)))
               => out = src

\* C11 for iastToDevanagari applied to src with output out
I2D_PassThrough(src, out) ==
    LET states == iastToDevanagariStates(src, [i |-> 0, result |-> <<>>])
    IN  /\ \A s \in states :
               LET n == iastToDevanagariStep(src, s)
               IN  /\ IsPrefix(s.result, n.result)
                   /\ IsPrefix(n.result, out)
                   /\ I2D_unrecognized(At(src, s.i))
                          => n = [i |-> s.i + 1,
                                  result |-> Append(s.result, At(src, s.i))]
        /\ \A j \in 0..(Len(src) - 1) :
               I2D_unrecognized(At(src, j)) => \E s \in states : s.i = j
        /\ (\A j \in 0..(Len(src) - 1) : I2D_unrecognized(At(src, j)))
               => out = src

\* C11: pass-through: in both converters every character of the input that
\* is in none of the converter's tables, the virama apart, is reached by the
\* loop at its own index and appended as it is to a result that only grows
\* into the output; a text of such characters only is returned unchanged.
C11_PassThrough ==
    \A k \in 1..Len(converted) :
        IF converted[k].to = "iast"
        THEN D2I_PassThrough(SourceOf(k), converted[k].text)
        ELSE I2D_PassThrough(SourceOf(k), converted[k].text)

\* C11 reached: a text with a consonant glyph and a character of no table
\* was converted to Latin, one with a Latin consonant and such a character
\* to Devanagari
C11_Witness ==
    /\ Len(converted) >= 2
    /\ converted[1].to = "iast"
    /\ \E j \in 1..Len(text) : <<text[j]>> \in DOMAIN D2I_consonants
    /\ \E j \in 1..Len(text) : text[j] = "x"
    /\ converted[2].to = "devanagari"
    /\ \E j \in 1..Len(converted[1].text) :
           <<converted[1].text[j]>> \in DOMAIN I2D_consonants
    /\ \E j \in 1..Len(converted[2].text) : converted[2].text[j] = "x"


\* the indices inside the text t
Inside(t) == 0..(Len(t) - 1)

IsString(x) == DOMAIN x = 1..Len(x)

\* C12: totality: on every text, the empty one and those that end inside a
\* longer unit included, every index text[i] that findAllHoldings,
\* findAllPauses, devanagariToIAST and iastToDevanagari read is inside the
\* text (preProcessRawText reads none), so no read yields undefined and no
\* call fails; each function returns a value of its type, and on the empty
\* text the converters and the normalizer return the empty text and the
\* locators the empty list.
C12_Totality ==
    /\ findAllHoldingsReads(text) \subseteq Inside(text)
    /\ findAllPausesReads(text) \subseteq Inside(text)
    /\ devanagariToIASTReads(text) \subseteq Inside(text)
    /\ iastToDevanagariReads(text) \subseteq Inside(text)
    /\ \A k \in 1..Len(holdings) :
           /\ holdings[k].type \in {"short", "long"}
           /\ holdings[k].length \in {1, 2}
           /\ holdings[k].position \in Inside(text)
           /\ holdings[k].position + holdings[k].length <= Len(text)
    /\ \A k \in 1..Len(pauses) :
           /\ pauses[k].type \in {"short", "long"}
           /\ pauses[k].position \in 1..Len(text)
    /\ \A k \in 1..Len(normalized) : IsString(normalized[k].text)
    /\ \A k \in 1..Len(converted) : IsString(converted[k].text)
    /\ text = <<>> =>
           /\ holdings = <<>> /\ pauses = <<>>
           /\ \A k \in 1..Len(normalized) : normalized[k].text = <<>>
           /\ \A k \in 1..Len(converted) : converted[k].text = <<>>

\* C12 reached: the pauses were located of a text that ends in a vowel
\* followed by tone marks only or by nothing, where the loop over the marks
\* runs up to the end of the text
C12_Witness ==
    /\ pc = "located"
    /\ \E i \in Inside(text) :
           /\ isVowel(text, i) # NoUnit
           /\ skipSvaraMarks(text, i + Len(isVowel(text, i))) = Len(text)
    /\ \E i \in Inside(text) : At(text, i) = "<ka>"


RECURSIVE BeforeMarks(_, _)
BeforeMarks(t, i) ==
    IF i < 0 THEN -1
    ELSE IF At(t, i) = PAUSE \/ isSvaraMark(At(t, i)) THEN BeforeMarks(t, i - 1)
    ELSE i

\* a cluster of two or more consonants starts at index pos
QualifyingClusterAt(t, pos) ==
    isConsonant(t, pos) # NoUnit /\ findSamyuktaLength(t, pos, FALSE) >= 2

\* C14: when the vowel unit nearest before a qualifying cluster is the
\* diphthong ai or au, findPreviousVowel reports the diphthong and the span
\* found from the cluster's first consonant is long and is emitted.
C14_DiphthongLookBehind ==
    pc = "located" =>
        \A pos \in 2..(Len(text) - 1) :
            LET q == BeforeMarks(text, pos - 1)
                h == findHoldingPosition(text, pos)
            IN  ( /\ QualifyingClusterAt(text, pos)
                  /\ q >= 1
                  /\ At(text, q - 1) = "a"
                  /\ At(text, q) \in {"i", "u"} )
                => /\ findPreviousVowel(text, pos, TRUE).vowel = <<"a", At(text, q)>>
                   /\ h.length > 0 =>
                          /\ h.type = "long"
                          /\ \E k \in 1..Len(holdings) : holdings[k] = h


\* a character a cluster runs over between its consonants
ClusterFiller(c) == IsWhitespace(c) \/ c = PAUSE \/ isSvaraMark(c)

\* the index right after the last consonant unit of the cluster that is
\* read from index i on, over whitespace, pause glyphs and tone marks
RECURSIVE ClusterEnd(_, _)
ClusterEnd(t, i) ==
    LET j == CHOOSE n \in i..Len(t) :
                 /\ \A q \in i..(n - 1) : ClusterFiller(At(t, q))
                 /\ (n = Len(t) \/ ~ClusterFiller(At(t, n)))
    IN  IF isConsonant(t, j) # NoUnit
        THEN ClusterEnd(t, j + Len(isConsonant(t, j)))
        ELSE i

\* the nearest index at or below i that holds no cluster filler, -1 if none
RECURSIVE BeforeFillers(_, _)
BeforeFillers(t, i) ==
    IF i < 0 THEN -1
    ELSE IF ClusterFiller(At(t, i)) THEN BeforeFillers(t, i - 1)
    ELSE i

\* the consonant at pos is the first of its cluster: what stands before it,
\* fillers apart, is no consonant
FirstOfCluster(t, pos) ==
    /\ isConsonant(t, pos) # NoUnit
    /\ <<At(t, BeforeFillers(t, pos - 1))>> \notin ALL_CONSONANTS

\* the spans emitted inside the cluster that starts at pos
SpansOfCluster(t, pos) ==
    {k \in 1..Len(holdings) :
        pos <= holdings[k].position /\ holdings[k].position < ClusterEnd(t, pos)}

\* C15: word-initial cluster: when the look-behind from the first consonant
\* of a qualifying cluster, over pause glyphs and tone marks, reaches
\* whitespace before any vowel, exactly one span is emitted for the whole
\* cluster: on its first consonant, as long as that consonant unit, short.
C15_WordInitial ==
    pc = "located" =>
        \A pos \in 1..(Len(text) - 1) :
            ( /\ FirstOfCluster(text, pos)
              /\ ClusterEnd(text, pos) > pos + Len(isConsonant(text, pos))
              /\ IsWhitespace(At(text, BeforeMarks(text, pos - 1))) )
            => /\ Cardinality(SpansOfCluster(text, pos)) = 1
               /\ \A k \in SpansOfCluster(text, pos) :
                      /\ holdings[k].position = pos
                      /\ holdings[k].length = Len(isConsonant(text, pos))
                      /\ holdings[k].type = "short"


\* C16: cross-boundary clusters are consumed whole: when the span found
\* from a consonant carries endPos (the cluster crosses a word boundary,
\* dvirvacana or not) and is emitted, endPos is not before the end of the
\* full cluster, over however many words and pause glyphs it runs, and the
\* span is the only one emitted for the consonants of that cluster.
C16_CrossBoundaryConsumed ==
    pc = "located" =>
        \A pos \in 1..(Len(text) - 1) :
            LET h == findHoldingPosition(text, pos)
            IN  ( /\ isConsonant(text, pos) # NoUnit
                  /\ "endPos" \in DOMAIN h
                  /\ \E k \in 1..Len(holdings) : holdings[k] = h )
                => /\ h.endPos >= ClusterEnd(text, pos)
                   /\ Cardinality(SpansOfCluster(text, pos)) = 1


\* C17: nasalization and aspiration marks end the look-behind: when the
\* nearest character before a qualifying cluster, pause glyphs and tone
\* marks apart, is one of the marks, findPreviousVowel reports the mark, and
\* every span emitted from the mark to the end of the cluster is short:
\* none is typed by a vowel that stands before the mark.
C17_MarkEndsLookBehind ==
    pc = "located" =>
        \A pos \in 1..(Len(text) - 1) :
            LET q == BeforeMarks(text, pos - 1)
            IN  ( /\ QualifyingClusterAt(text, pos)
                  /\ At(text, q) \in {"M", "M.", "H"} )
                => /\ findPreviousVowel(text, pos, TRUE).vowel = <<At(text, q)>>
                   /\ \A k \in 1..Len(holdings) :
                          ( /\ q <= holdings[k].position
                            /\ holdings[k].position < ClusterEnd(text, pos) )
                          => holdings[k].type = "short"


\* the vowel unit that ends at index q, two characters wide for a diphthong
VowelUnitEndingAt(t, q) ==
    IF q >= 1 /\ <<At(t, q - 1), At(t, q)>> \in LONG_VOWELS
    THEN <<At(t, q - 1), At(t, q)>>
    ELSE IF q >= 0 /\ <<At(t, q)>> \in SHORT_VOWELS \cup LONG_VOWELS
    THEN <<At(t, q)>>
    ELSE NoUnit

\* the index right after the last consonant unit of the cluster that the
\* threshold counts from index i on: over whitespace and pause glyphs
RECURSIVE CountedClusterEnd(_, _)
CountedClusterEnd(t, i) ==
    LET j == AfterGap(t, i)
    IN  IF isConsonant(t, j) # NoUnit
        THEN CountedClusterEnd(t, j + Len(isConsonant(t, j)))
        ELSE i

\* the index of the first consonant unit outside SKIP_CONSONANTS of that
\* cluster, read from index i on; -1 if the cluster holds none
RECURSIVE FirstNonSkip(_, _)
FirstNonSkip(t, i) ==
    LET j == AfterGap(t, i)
        c == isConsonant(t, j)
    IN  IF c = NoUnit THEN -1
        ELSE IF c \notin SKIP_CONSONANTS THEN j
        ELSE FirstNonSkip(t, j + Len(c))

\* the cluster that starts at pos has two consonants or more, holds no
\* whitespace, and follows a vowel unit, pause glyphs and tone marks apart
WithinWordAfterVowel(t, pos) ==
    /\ FirstOfCluster(t, pos)
    /\ QualifyingClusterAt(t, pos)
    /\ \A q \in pos..(CountedClusterEnd(t, pos) - 1) : ~IsWhitespace(At(t, q))
    /\ VowelUnitEndingAt(t, BeforeMarks(t, pos - 1)) # NoUnit

\* C18: within-word placement: a qualifying cluster that crosses no word
\* boundary and follows a vowel gets a span on its first consonant unit
\* outside SKIP_CONSONANTS, as long as that unit (2 for an aspirated
\* consonant, otherwise 1), long if the preceding vowel is in LONG_VOWELS and
\* short otherwise.
C18_WithinWordPlacement ==
    pc = "located" =>
        \A pos \in 1..(Len(text) - 1) :
            LET site == FirstNonSkip(text, pos)
                v == VowelUnitEndingAt(text, BeforeMarks(text, pos - 1))
            IN  (WithinWordAfterVowel(text, pos) /\ site >= 0)
                => \E k \in 1..Len(holdings) :
                       /\ holdings[k].position = site
                       /\ holdings[k].length = Len(isConsonant(text, site))
                       /\ holdings[k].type =
                              (IF v \in LONG_VOWELS THEN "long" ELSE "short")


\* the nearest index at or below i that holds no tone mark, -1 if none
RECURSIVE BeforeSvaraMarks(_, _)
BeforeSvaraMarks(t, i) ==
    IF i < 0 THEN -1
    ELSE IF isSvaraMark(At(t, i)) THEN BeforeSvaraMarks(t, i - 1)
    ELSE i

\* the whitespace character at index w stands alone between a vowel unit
\* and a vowel unit, tone marks apart
SandhiHiatusAt(t, w) ==
    /\ IsWhitespace(At(t, w))
    /\ VowelUnitEndingAt(t, BeforeSvaraMarks(t, w - 1)) # NoUnit
    /\ isVowel(t, skipSvaraMarks(t, w + 1)) # NoUnit

\* the pause at insertion point p is the one of the "om" rule
OmPauseAt(t, p) ==
    p >= 3 /\ At(t, p - 3) = "o" /\ At(t, p - 2) = "M" /\ IsWhitespace(At(t, p - 1))

\* C19: sandhi hiatus detection: a pause is emitted for a vowel unit exactly
\* when it is followed, tone marks apart, by exactly one whitespace
\* character that is followed, tone marks apart, by another vowel unit, and
\* its position is the index right after that whitespace character; a word
\* followed by no vowel, or by two or more whitespace characters, gets no
\* pause (the "om" rule apart).
C19_SandhiHiatus ==
    pc = "located" =>
        /\ \A w \in 1..(Len(text) - 2) :
               SandhiHiatusAt(text, w)
               => \E k \in 1..Len(pauses) : pauses[k].position = w + 1
        /\ \A k \in 1..Len(pauses) :
               \/ OmPauseAt(text, pauses[k].position)
               \/ SandhiHiatusAt(text, pauses[k].position - 1)


\* C20: sandhi pause typing: every pause of the vowel-whitespace-vowel rule
\* stands before a vowel unit and after a whitespace character that follows
\* a vowel unit, tone marks apart, and is long exactly when the vowel unit
\* that ends the first word is in LONG_VOWELS and the one that begins the
\* second word is in SHORT_VOWELS; short+short, short+long and long+long
\* give short.
C20_SandhiPauseType ==
    pc = "located" =>
        \A k \in 1..Len(pauses) :
            LET p == pauses[k].position
                w == BeforeSvaraMarks(text, p - 1)
                first == VowelUnitEndingAt(text, BeforeSvaraMarks(text, w - 1))
                second == isVowel(text, p)
            IN  ~OmPauseAt(text, p)
                => /\ first # NoUnit
                   /\ second # NoUnit
                   /\ pauses[k].type \in {"long", "short"}
                   /\ pauses[k].type = "long"
                          <=> (first \in LONG_VOWELS /\ second \in SHORT_VOWELS)

\* C20 reached: the pauses of a text were located and one of them, between
\* a word that ends in a long vowel and a word that begins with a long
\* vowel, is short
C20_Witness ==
    /\ pc = "located"
    /\ \E k \in 1..Len(pauses) :
           LET p == pauses[k].position
               w == BeforeSvaraMarks(text, p - 1)
           IN  /\ ~OmPauseAt(text, p)
               /\ VowelUnitEndingAt(text, BeforeSvaraMarks(text, w - 1)) \in LONG_VOWELS
               /\ isVowel(text, p) \in LONG_VOWELS
               /\ pauses[k].type = "short"


\* the consonant unit of the IAST table that starts at index i, the
\* aspirated one where both fit; NoUnit if none
I2D_consonantUnitAt(t, i) ==
    IF i < Len(t) - 1 /\ Substring(t, i, i + 2) \in DOMAIN I2D_consonants
    THEN Substring(t, i, i + 2)
    ELSE IF i < Len(t) /\ <<At(t, i)>> \in DOMAIN I2D_consonants
    THEN <<At(t, i)>>
    ELSE NoUnit

\* C21: post-consonant priority of iastToDevanagari: wherever the loop
\* stands on a consonant unit C, plain or aspirated, what follows C is taken
\* as a 2-unit vowel sign (ai, au) first, then as a 1-unit vowel sign, then
\* as the explicit a: C + ai / au emits glyph(C) and the diphthong sign, and
\* C + lone a emits glyph(C) alone.
C21_PostConsonantPriority ==
    (pc = "converted" /\ converted[1].to = "devanagari") =>
        \A s \in iastToDevanagariStates(text, [i |-> 0, result |-> <<>>]) :
            LET C == I2D_consonantUnitAt(text, s.i)
                j == s.i + Len(C)
                nextTwo == Substring(text, j, j + 2)
                n == iastToDevanagariStep(text, s)
                glyph == <<I2D_consonants[C]>>
            IN  C # NoUnit =>
                  /\ (j < Len(text) - 1 /\ nextTwo \in {<<"a", "i">>, <<"a", "u">>})
                     => n = [i |-> j + 2,
                             result |-> s.result \o glyph \o <<I2D_vowelSigns[nextTwo]>>]
                  /\ ( /\ j < Len(text)
                       /\ ~(j < Len(text) - 1 /\ nextTwo \in DOMAIN I2D_vowelSigns)
                       /\ <<At(text, j)>> \in DOMAIN I2D_vowelSigns )
                     => n = [i |-> j + 1,
                             result |-> s.result \o glyph
                                          \o <<I2D_vowelSigns[<<At(text, j)>>]>>]
                  /\ ( /\ j < Len(text)
                       /\ At(text, j) = "a"
                       /\ ~(j < Len(text) - 1 /\ nextTwo \in DOMAIN I2D_vowelSigns) )
                     => n = [i |-> j + 1, result |-> s.result \o glyph]


\* C22: iastToDevanagari always closes a vowelless consonant: wherever the
\* loop stands on a consonant unit that is followed by neither a vowel sign
\* nor an explicit a, what follows is a consonant or a word boundary (end of
\* text, whitespace, punctuation) and a virama is emitted right after the
\* consonant glyph: the branch that emits no virama is never taken.
C22_ViramaAlways ==
    (pc = "converted" /\ converted[1].to = "devanagari") =>
        \A s \in iastToDevanagariStates(text, [i |-> 0, result |-> <<>>]) :
            LET C == I2D_consonantUnitAt(text, s.i)
                j == s.i + Len(C)
                n == iastToDevanagariStep(text, s)
            IN  ( /\ C # NoUnit
                  /\ ~(j < Len(text) - 1
                       /\ Substring(text, j, j + 2) \in DOMAIN I2D_vowelSigns)
                  /\ ~(j < Len(text) /\ <<At(text, j)>> \in DOMAIN I2D_vowelSigns)
                  /\ ~(j < Len(text) /\ At(text, j) = "a") )
                => /\ isConsonantAhead(text, j) \/ isWordBoundary(At(text, j))
                   /\ n = [i |-> j,
                           result |-> s.result \o <<I2D_consonants[C], VIRAMA>>]


\* the loop of devanagariToIAST stands on a consonant glyph in state s
D2I_onConsonant(t, s) ==
    At(t, s.i) # "<om>" /\ <<At(t, s.i)>> \in DOMAIN D2I_consonants

\* C23: inherent vowel rule of devanagariToIAST: every consonant glyph of
\* the text is met by the loop; followed by a character that is neither a
\* vowel sign nor the virama it emits consonant + a; followed by a vowel
\* sign it emits consonant + that vowel and consumes both; as the last
\* character of the text it emits the bare consonant.
C23_InherentVowel ==
    (pc = "converted" /\ converted[1].to = "iast") =>
        LET states == devanagariToIASTStates(text, [i |-> 0, result |-> <<>>])
        IN  /\ \A q \in 0..(Len(text) - 1) :
                   <<At(text, q)>> \in DOMAIN D2I_consonants
                   => \E s \in states : s.i = q
            /\ \A s \in states :
                   LET cons == D2I_consonants[<<At(text, s.i)>>]
                       next == At(text, s.i + 1)
                       n == devanagariToIASTStep(text, s)
                   IN  D2I_onConsonant(text, s) =>
                         /\ s.i + 1 = Len(text)
                            => n = [i |-> s.i + 1, result |-> s.result \o cons]
                         /\ (s.i + 1 < Len(text) /\ next \in DOMAIN D2I_vowelSigns)
                            => n = [i |-> s.i + 2,
                                    result |-> s.result \o cons \o D2I_vowelSigns[next]]
                         /\ ( /\ s.i + 1 < Len(text)
                              /\ next \notin DOMAIN D2I_vowelSigns
                              /\ next # VIRAMA )
                            => n = [i |-> s.i + 1,
                                    result |-> s.result \o cons \o <<"a">>]
            /\ converted[1].text = devanagariToIAST(text)

\* C23 reached: a text was converted in which one consonant glyph is
\* followed by a vowel sign and another one is the last character
C23_Witness ==
    /\ pc = "converted"
    /\ converted[1].to = "iast"
    /\ \E q \in 0..(Len(text) - 2) :
           /\ <<At(text, q)>> \in DOMAIN D2I_consonants
           /\ At(text, q + 1) \in DOMAIN D2I_vowelSigns
    /\ <<At(text, Len(text) - 1)>> \in DOMAIN D2I_consonants
    /\ converted[1].text[Len(converted[1].text)] # "a"


\* C24: the output of devanagariToIAST never holds the virama, whatever the
\* input (a virama after a vowel, a vowel sign or another virama included),
\* and consonant + virama + consonant emits the two bare consonants next to
\* each other, with no separator and no inherent a between them.
C24_NoViramaInOutput ==
    /\ \A k \in 1..Len(converted) :
           converted[k].to = "iast"
           => \A q \in 1..Len(converted[k].text) : converted[k].text[q] # VIRAMA
    /\ (pc = "converted" /\ converted[1].to = "iast") =>
           \A s \in devanagariToIASTStates(text, [i |-> 0, result |-> <<>>]) :
               LET first == D2I_consonants[<<At(text, s.i)>>]
                   second == D2I_consonants[<<At(text, s.i + 2)>>]
                   n == devanagariToIASTStep(text, s)
                   m == devanagariToIASTStep(text, n)
               IN  ( /\ D2I_onConsonant(text, s)
                     /\ At(text, s.i + 1) = VIRAMA
                     /\ s.i + 2 < Len(text)
                     /\ <<At(text, s.i + 2)>> \in DOMAIN D2I_consonants )
                   => /\ n = [i |-> s.i + 2, result |-> s.result \o first]
                      /\ IsPrefix(s.result \o first \o second, m.result)

\* C24 reached: a conjunct (consonant, virama, consonant) was converted
\* from Devanagari into two adjacent consonants
C24_Witness ==
    /\ pc = "converted"
    /\ converted[1].to = "iast"
    /\ text = <<"<ka>", VIRAMA, "<ta>">>
    /\ converted[1].text = <<"k", "t">>

\* an iteration of the loop the scan is in moves the index on by one code
\* unit at least (down, for the look-behind), or leaves the loop for a later
\* loop or for the return
ScanAdvances ==
    LET call == calls[1]
        n == ScanIterate(call)
    IN  (call.phase # "done" /\ LoopCondition(call))
        => IF n.phase = call.phase
           THEN IF call.op = "findPreviousVowel" THEN n.i <= call.i - 1
                ELSE n.i >= call.i + 1
           ELSE PhaseRank[n.phase] > PhaseRank[call.phase]

\* a scan that has returned holds the value of its operation
ScanReturnsResult ==
    calls[1].phase = "done" => calls[1].value = <<ScanResult(calls[1])>>

\* C25: scan termination: every iteration of the loops of findAllHoldings,
\* findHoldingPosition, findSamyuktaLength, findPreviousVowel, findAllPauses,
\* devanagariToIAST and iastToDevanagari strictly advances its index
\* (backward for the look-behind) or leaves its loop, and every operation
\* eventually returns, with its value.
C25_ScanTermination ==
    /\ [](ScanAdvances /\ ScanReturnsResult)
    /\ <>(calls[1].phase = "done")

\* C25 reached: findHoldingPosition has returned a holding with endPos
\* after its traversal loop and the loop to the end of the samyukta ran
C25_Witness ==
    /\ calls[1].op = "findHoldingPosition"
    /\ calls[1].phase = "done"
    /\ "endPos" \in DOMAIN calls[1].value[1]
    /\ calls[1].i > calls[1].pos + 1


\* the document after the standardization of the selection
StandardizedDocument == edit.standardized

\* the index in the final document of the text inserted for the pause that
\* was found k-th: every pause found before it stands before it
InsertedAt(found, k) == edit.at + found[k].position + Len(PauseText) * (k - 1)

\* C26: applyAutomaticPauses keeps offsets valid: the pauses are those of
\* findAllPauses on the standardized selection, they are applied in strictly
\* descending position order, and in the final document the text inserted
\* for each pause stands immediately before the character that was at the
\* pause's position in the standardized text; nothing else has changed.
C26_OffsetsValid ==
    pc = "applied" =>
        LET processed == normalized[1].text
            found == findAllPauses(processed)
        IN  /\ processed = preProcessRawText(
                               Substring(edit.before, edit.at, edit.at + edit.length))
            /\ Len(pauses) = Len(found)
            /\ \A k \in 1..Len(pauses) : \E j \in 1..Len(found) : pauses[k] = found[j]
            /\ \A k \in 1..(Len(pauses) - 1) :
                   pauses[k].position > pauses[k + 1].position
            /\ Len(text) = Len(StandardizedDocument) + Len(PauseText) * Len(found)
            /\ \A k \in 1..Len(found) :
                   LET q == InsertedAt(found, k)
                   IN  /\ Substring(text, q, q + Len(PauseText)) = PauseText
                       /\ found[k].position < Len(processed)
                          => At(text, q + Len(PauseText))
                                 = At(processed, found[k].position)
                       /\ At(text, q + Len(PauseText))
                              = At(StandardizedDocument, edit.at + found[k].position)
                       /\ Substring(text, 0, q)
                              = insertPauses(Substring(StandardizedDocument, 0,
                                                       edit.at + found[k].position),
                                             edit.at, found, k - 1)

\* C26 reached: two pauses were applied to a selection that the normalizer
\* had changed
C26_Witness ==
    /\ pc = "applied"
    /\ Len(pauses) = 2
    /\ edit.standardized # edit.before


\* C27: every span of findAllHoldings lies inside the text from index 1 on,
\* is short or long, and covers exactly the consonant unit that isConsonant
\* finds at its position, one or two code units long.
C27_SpanWellFormed ==
    pc = "located" =>
        \A k \in 1..Len(holdings) :
            LET h == holdings[k]
            IN  /\ 1 <= h.position
                /\ h.position + h.length <= Len(text)
                /\ h.type \in {"short", "long"}
                /\ h.length \in {1, 2}
                /\ isConsonant(text, h.position) # NoUnit
                /\ Substring(text, h.position, h.position + h.length)
                       = isConsonant(text, h.position)

\* C27 reached: a span on an aspirated consonant, two code units long, and
\* another span after it
C27_Witness ==
    /\ pc = "located"
    /\ Len(holdings) = 2
    /\ holdings[1].length = 2


\* the index right after the consonant units that follow each other from
\* index i on with nothing between them
RECURSIVE RunEnd(_, _)
RunEnd(t, i) ==
    IF isConsonant(t, i) = NoUnit THEN i
    ELSE RunEnd(t, i + Len(isConsonant(t, i)))

\* C28: one span per cluster inside a word: a maximal run of consonant
\* units that follows a vowel and holds no whitespace gets at most one span
\* of findAllHoldings, however many consonants it has.
C28_OneSpanPerRun ==
    pc = "located" =>
        \A q \in 1..(Len(text) - 1) :
            ( /\ isConsonant(text, q) # NoUnit
              /\ VowelUnitEndingAt(text, q - 1) # NoUnit )
            => Cardinality({k \in 1..Len(holdings) :
                               /\ q <= holdings[k].position
                               /\ holdings[k].position < RunEnd(text, q)}) <= 1


\* nothing stands before index pos but consonants, pause glyphs and tone
\* marks: no vowel, no nasalization or aspiration mark, no whitespace
OpensText(t, pos) ==
    \A q \in 0..(pos - 1) :
        /\ <<At(t, q)>> \notin VOWELS
        /\ At(t, q) \notin {"M", "M.", "H"}
        /\ ~IsWhitespace(At(t, q))

\* the index right after the last consonant unit of the cluster read from
\* index i on inside the word: over pause glyphs and tone marks only
RECURSIVE InWordClusterEnd(_, _)
InWordClusterEnd(t, i) ==
    LET j == CHOOSE n \in i..Len(t) :
                 /\ \A q \in i..(n - 1) : At(t, q) = PAUSE \/ isSvaraMark(At(t, q))
                 /\ (n = Len(t) \/ ~(At(t, n) = PAUSE \/ isSvaraMark(At(t, n))))
    IN  IF isConsonant(t, j) # NoUnit
        THEN InWordClusterEnd(t, j + Len(isConsonant(t, j)))
        ELSE i

\* C29: the start of the text is no word boundary for holdings: a
\* qualifying cluster whose look-behind reaches the beginning of the text
\* without meeting a vowel, a nasalization or aspiration mark or whitespace
\* yields no span, and the same text after a whitespace character yields a
\* short span on the first consonant of the cluster.
C29_StartOfText ==
    pc = "located" =>
        \A pos \in 0..(Len(text) - 1) :
            (QualifyingClusterAt(text, pos) /\ OpensText(text, pos))
            => /\ findHoldingPosition(text, pos) = NoHolding
               /\ \A k \in 1..Len(holdings) :
                      ~( /\ pos <= holdings[k].position
                         /\ holdings[k].position < InWordClusterEnd(text, pos) )
               /\ pos = 0
                  => \E k \in 1..Len(findAllHoldings(<<SPACE>> \o text)) :
                         findAllHoldings(<<SPACE>> \o text)[k]
                             = [position |-> 1,
                                length |-> Len(isConsonant(text, 0)),
                                type |-> "short"]

\* C29 reached: a text that opens with a cluster of an aspirated consonant
\* and a second consonant has no span, and has one after a space
C29_Witness ==
    /\ pc = "located"
    /\ Len(isConsonant(text, 0)) = 2
    /\ QualifyingClusterAt(text, 0)
    /\ holdings = <<>>
    /\ findAllHoldings(<<SPACE>> \o text) # <<>>


\* the conversion of direction to, as the host applies it to one run of text
ConvertRun(to, run) ==
    IF to = "iast" THEN devanagariToIAST(run) ELSE iastToDevanagari(run)

\* C30: splitting a text into two runs does not change its conversion: for
\* every offset n, the conversion of the first n characters followed by the
\* conversion of the rest equals the conversion of the whole text, in both
\* directions.
C30_RunSplitting ==
    (pc = "converted" /\ Len(converted) = 1) =>
        \A n \in 0..Len(text) :
            ConvertRun(converted[1].to, SubSeq(text, 1, n))
                \o ConvertRun(converted[1].to, SubSeq(text, n + 1, Len(text)))
            = converted[1].text


=============================================================================
